---------------------------- MODULE Spec2Model ----------------------------
(***************************************************************************)
(* Verification model of clinicsay-migrations: the chunked transactional   *)
(* loader (utils/batch-processor + config/database), the reconciliation    *)
(* engine (services/ai-mapper.service.js) and the paginated source reader  *)
(* (utils/api-client.js).  Each subsystem has its own specification over   *)
(* its own variables; the variables of the other subsystems stay unchanged.*)
(***************************************************************************)
EXTENDS Integers, Sequences, FiniteSets, TLC

VARIABLES
  \* ---- chunked transactional loader (processBatches / insertBatch / transaction)
  allRecords,     \* the records handed to processBatches, as record ids 1..N
  batchSize,      \* the chunk size K
  hasCallback,    \* whether onBatchComplete is a function
  lpc,            \* position of the processBatches call
  i,              \* the for-loop index of processBatches
  stats,          \* the statistics object of processBatches
  table,          \* committed rows of the target table (record ids)
  txn,            \* rows pending in the open transaction of the held connection
  acquired,       \* connections obtained from the pool so far
  released,       \* connections given back to the pool so far
  call,           \* the running insertBatch call: failing step, error, rollback outcome
  result,         \* the value insertBatch returned for the current chunk
  log,            \* one entry per finished insertBatch call, in call order
  thrownBy,       \* what made processBatches reject ("none" while it has not)
  \* ---- reconciliation engine (mapData / mapperCache)
  mapperCache,    \* the module-level Map: a set of <<key, result object>> pairs
  mcall,          \* per caller: the mapData call in progress, if any
  oracleCalls,    \* number of oracle invocations so far (also names the objects parsed)
  started,        \* number of mapData calls started so far
  last,           \* the latest finished mapData call or cache clear
  prev,           \* the one finished before it (without the oracle's answer)
  \* ---- paginated source reader (getAllPaginated / processPaginatedInBatches)
  mode,           \* which of the two operations runs
  limit,          \* the page size
  total,          \* the number of records of the source, the count it reports
  rpc,            \* position of the operation
  page,           \* the for-loop variable page
  totalPages,     \* totalPages once the first page has answered
  requests,       \* the offsets requested so far, in order
  inFlight,       \* the number of requests awaiting their answer
  failedPages,    \* the pages whose request failed
  callbacks,      \* the processFn invocations so far: page index, totalPages, records
  active,         \* the pages whose processFn call has not finished
  held,           \* the pages whose records a binding of the operation refers to
  allResults,     \* getAllPaginated: the records materialized so far
  rret,           \* the value the operation returned
  caught,         \* what the operation's catch block caught ("none" if nothing)
  lastCount,      \* the count field of the latest successful answer
  \* ---- appointments flow (router.post("/citas"))
  fpc,            \* position of the route handler
  step,           \* index of the preparation step (filters, reconciliations, patients)
  reconciled,     \* the outcome of each reconciliation made so far, in order
  appointments,   \* the source: the appointments of /agenda/citas/, id = SourceId(index)
  citas,          \* the target table citas: its rows in insertion order
  preexisting,    \* the number of rows citas held before the run
  currentPage,    \* the page the stream is at
  pageRequests,   \* the pages requested from the source so far, in order
  pagesFailed,    \* the pages whose request failed
  transformedBatch, \* the records transformed from the current page
  primaryIdMapping, \* old_id -> id_cita pairs built from the re-query
  globalStats,    \* the statistics accumulated over the pages
  loads,          \* the processBatches calls made so far: page, kind, records,
                  \* and the failedBatches of the stats returned (0 until then)
  stages,         \* <<page, stage>> for every finished stage of a page callback
  httpResponse,   \* the HTTP response sent (status 0 while none is)
  \* ---- receipts flow (router.post("/recibos")), with the variables above
  flow,           \* the route that runs: "citas" or "recibos"
  sales,          \* the source: the sales of /ventas/ventas/, id = SourceId(index)
  recibos,        \* the target table recibos: its rows in insertion order
  detalle_recibo, \* the target table detalle_recibo: its rows in insertion order
  pacientes,      \* the clients registered as patients by the run, in order
  patientMapping, \* the clients patientMapping has an entry for
  detailErrors,   \* the sales of the page whose detail request failed
  saleIndex,      \* the position of the loop over the sales of the page
  transformedRecibos, \* the receipts transformed from the current page
  reciboIdMapping, \* old_id -> id_recibo pairs built from the re-query
  \* ---- utils/sanitizer (part_000)
  inputRecords,   \* the array handed to sanitizeRecords
  requiredFields, \* its second argument
  sanitized,      \* the array it returned
  resanitized,    \* the array it returned when handed its own result
  spc,            \* position: "input", "once", "twice"
  \* ---- middlewares/auth.middleware.js in front of a migration route
  request,        \* the request: its Authorization header and its body.clinic
  apc,            \* position: "bearer", "clinic", "handler", "running", "responded"
  authResponse,   \* the response a middleware sent
  bearerToken,    \* req.bearerToken
  handler,        \* the route handler: "idle" or "running"
  \* ---- processBatches: the calls of onBatchComplete
  notified,       \* one entry per call of onBatchComplete, in call order
  \* ---- insertBatch: the INSERT statement built from a chunk
  chunkRecords,   \* the records of the chunk handed to insertBatch
  statement,      \* the statement built: its columns and its rows of values
  qpc,            \* position: "build", "execute", "done"
  insertResult,   \* the value insertBatch returned
  insertedRows,   \* the rows the statement inserted
  \* ---- POST /encuestas: the responses of the completed surveys
  completedSurveys, \* the ids of the completed surveys, in the order fetched
  batchStart,       \* the loop variable of the survey batches
  unit,             \* per survey, where its async callback stands
  epc,              \* position of the loop: "loop", "await", "done"
  surveyStats,      \* stats: total, processed, inserted, skipped, errors
  hojas,            \* anamnesis_hojas_has_pacientes: the rows per (sheet, patient)
  \* ---- fetchAllSurveyTemplates: the probing of the survey templates
  responding,       \* the survey ids the source answers with a template
  surveyId,         \* the id to probe next
  consecutiveErrors, \* the failed probes since the last template found
  templates,        \* the templates found, by their id
  tpc,              \* position: "loop", "done"
  \* ---- migrateSurveyTemplate: one survey template and its tables
  surveyTemplate,   \* the template of the source: its id and its questions
  aiData,           \* aiResult.data: the categories with their questions
  anamnesis_hojas,  \* the rows of anamnesis_hojas
  anamnesis_categorias, \* the rows of anamnesis_categorias
  anamnesis_preguntas,  \* anamnesis_preguntas joined to its category link
  migrations        \* what each call of migrateSurveyTemplate returned

loaderVars == <<allRecords, batchSize, hasCallback, lpc, i, stats, table, txn,
                acquired, released, call, result, log, thrownBy>>

mapperVars == <<mapperCache, mcall, oracleCalls, started, last, prev>>

readerVars == <<mode, limit, total, rpc, page, totalPages, requests, inFlight,
                failedPages, callbacks, active, held, allResults, rret, caught,
                lastCount>>

citasVars == <<fpc, step, reconciled, appointments, citas, preexisting,
               currentPage, pageRequests, pagesFailed, transformedBatch,
               primaryIdMapping, globalStats, loads, stages, httpResponse>>

recibosVars == <<flow, sales, recibos, detalle_recibo, pacientes, patientMapping,
                 detailErrors, saleIndex, transformedRecibos, reciboIdMapping>>

sanitizerVars == <<inputRecords, requiredFields, sanitized, resanitized, spc>>

authVars == <<request, apc, authResponse, bearerToken, handler>>

notifyVars == <<notified>>

insertVars == <<chunkRecords, statement, qpc, insertResult, insertedRows>>

encuestasVars == <<completedSurveys, batchStart, unit, epc, surveyStats,
                   hojas>>

templatesVars == <<responding, surveyId, consecutiveErrors, templates, tpc>>

plantillasVars == <<surveyTemplate, aiData, anamnesis_hojas, anamnesis_categorias, anamnesis_preguntas, migrations>>

vars == <<loaderVars, mapperVars, readerVars, citasVars, recibosVars,
          sanitizerVars, authVars, notifyVars, insertVars, encuestasVars, templatesVars, plantillasVars>>

-----------------------------------------------------------------------------
(* Bounds of the model *)

MaxRecords == 4
MaxBatchSize == 3
MaxCalls == 2
MaxTotal == 5
MaxLimit == 2

(* Error codes the store client raises, by failing step *)
ConnectCodes == {"ECONNREFUSED"}
BeginCodes == {"PROTOCOL_CONNECTION_LOST"}
ExecuteCodes == {"ER_DUP_ENTRY", "ER_BAD_NULL_ERROR"}
CommitCodes == {"PROTOCOL_CONNECTION_LOST"}
RollbackCodes == {"EPIPE"}

-----------------------------------------------------------------------------
(* Pure helpers *)

\* (faulty variant: Math.floor)
FloorDiv(n, k) == n \div k
\* Math.ceil(n / k) for n >= 0, k >= 1
Ceil(n, k) == IF n % k = 0 THEN n \div k ELSE (n \div k) + 1

Min(a, b) == IF a < b THEN a ELSE b

\* Array.prototype.slice(start, end) on a sequence (0-based, end exclusive)
slice(s, start, end) == SubSeq(s, start + 1, Min(end, Len(s)))

Range(s) == {s[x] : x \in 1..Len(s)}

RECURSIVE SumSizes(_)
SumSizes(s) == IF s = <<>> THEN 0
               ELSE (IF s[1].success THEN s[1].size ELSE 0) + SumSizes(Tail(s))

NoCall == [failStep |-> "none", error |-> "none", rollbackFailed |-> FALSE]
NoResult == [success |-> FALSE, inserted |-> 0, batch |-> 0, code |-> "none"]

\* the chunk of loop index x: allRecords.slice(start, end)
batchOf(x) == slice(allRecords, x * batchSize,
                    Min(x * batchSize + batchSize, Len(allRecords)))

-----------------------------------------------------------------------------
(* config/database: transaction(callback) *)

\* connection.commit(): the pending rows become rows of the table
commit(tbl, pending) == tbl \cup pending

\* connection.rollback(): the pending rows are discarded
\* (faulty variant: the catch block commits what is pending)
rollbackCommits(tbl, pending) == tbl \cup pending
rollback(tbl, pending) == tbl

\* finally { connection.release() }: runs on every exit path of the try block
\* (faulty variant: release placed after the rollback instead of in finally)
releaseUnlessRollbackFailed(n, c) == IF c.rollbackFailed THEN n ELSE n + 1
release(n, c) == n + 1

-----------------------------------------------------------------------------
(* utils/batch-processor: insertBatch *)

\* the try/catch of insertBatch as a completion: the value returned, or the
\* error that escapes
\* (faulty variant: no catch, the error escapes insertBatch)
insertBatchNoCatch(c, records, batchNumber) ==
  IF c.error = "none"
  THEN [type |-> "return",
        value |-> [success |-> TRUE, inserted |-> Len(records),
                   batch |-> batchNumber, code |-> "none"]]
  ELSE [type |-> "throw", value |-> NoResult]
insertBatchCompletion(c, records, batchNumber) ==
  IF c.error = "none"
  THEN [type |-> "return",
        value |-> [success |-> TRUE, inserted |-> Len(records),
                   batch |-> batchNumber, code |-> "none"]]
  ELSE [type |-> "return",
        value |-> [success |-> FALSE, inserted |-> 0,
                   batch |-> batchNumber, code |-> c.error]]

\* stats.errors.push({batch: i + 1, offset: start, error, code})
\* (faulty variant: the zero-based index is pushed as batch)
errorDescriptorZeroBased(res, x, start) ==
  [batch |-> x, offset |-> start, code |-> res.code]
errorDescriptor(res, x, start) ==
  [batch |-> x + 1, offset |-> start, code |-> res.code]

\* if (onBatchComplete && typeof onBatchComplete === 'function')
\* (faulty variant: only successful chunks are reported)
notifySuccessOnly(callback, res) == callback /\ res.success
notify(callback, res) == callback

\* processBatches, the if/else after await insertBatch
\* (faulty variant: a failed chunk's records are counted as inserted)
countAttempted(st, res, x, start, size) ==
  IF res.success
  THEN [st EXCEPT !.successfulBatches = @ + 1, !.insertedRecords = @ + res.inserted]
  ELSE [st EXCEPT !.failedBatches = @ + 1, !.insertedRecords = @ + size,
                  !.errors = Append(@, [batch |-> x + 1, offset |-> start,
                                        code |-> res.code])]
updateStats(st, res, x, start, size) ==
  IF res.success
  THEN [st EXCEPT !.successfulBatches = @ + 1, !.insertedRecords = @ + res.inserted]
  ELSE [st EXCEPT !.failedBatches = @ + 1,
                  !.errors = Append(@, errorDescriptor(res, x, start))]

-----------------------------------------------------------------------------
(* Loader: actions *)

\* for (let i = 0; i < totalBatches; i++): the loop is over; return stats
ProcessBatchesReturn ==
  /\ UNCHANGED <<mapperVars, readerVars, citasVars, recibosVars,
               sanitizerVars, authVars, notifyVars, insertVars, encuestasVars, templatesVars, plantillasVars>>
  /\ lpc = "loop"
  /\ ~(i < stats.totalBatches)
  /\ lpc' = "returned"
  /\ UNCHANGED <<allRecords, batchSize, hasCallback, i, stats, table, txn,
                 acquired, released, call, result, log, thrownBy>>

\* the loop body up to the call of insertBatch, and insertBatch's empty check
InsertBatchCall ==
  /\ UNCHANGED <<mapperVars, readerVars, citasVars, recibosVars,
               sanitizerVars, authVars, notifyVars, insertVars, encuestasVars, templatesVars, plantillasVars>>
  /\ lpc = "loop"
  /\ i < stats.totalBatches
  /\ call' = NoCall
  /\ IF batchOf(i) = <<>>
     THEN /\ result' = [success |-> TRUE, inserted |-> 0, batch |-> i + 1,
                        code |-> "none"]
          /\ log' = Append(log, [batch |-> i + 1, size |-> 0, success |-> TRUE,
                                 failStep |-> "none", rollbackFailed |-> FALSE,
                                 code |-> "none"])
          /\ lpc' = "result"
     ELSE /\ lpc' = "getConnection"
          /\ UNCHANGED <<result, log>>
  /\ UNCHANGED <<allRecords, batchSize, hasCallback, i, stats, table, txn,
                 acquired, released, thrownBy>>

\* transaction(): const connection = await getConnection()  (outside the try)
GetConnection ==
  /\ UNCHANGED <<mapperVars, readerVars, citasVars, recibosVars,
               sanitizerVars, authVars, notifyVars, insertVars, encuestasVars, templatesVars, plantillasVars>>
  /\ lpc = "getConnection"
  /\ \/ /\ acquired' = acquired + 1
        /\ lpc' = "beginTransaction"
        /\ UNCHANGED call
     \/ \E c \in ConnectCodes :
          /\ call' = [call EXCEPT !.failStep = "getConnection", !.error = c]
          /\ lpc' = "insertBatchEnd"
          /\ UNCHANGED acquired
  /\ UNCHANGED <<allRecords, batchSize, hasCallback, i, stats, table, txn,
                 released, result, log, thrownBy>>

\* await connection.beginTransaction()
BeginTransaction ==
  /\ UNCHANGED <<mapperVars, readerVars, citasVars, recibosVars,
               sanitizerVars, authVars, notifyVars, insertVars, encuestasVars, templatesVars, plantillasVars>>
  /\ lpc = "beginTransaction"
  /\ \/ /\ lpc' = "execute"
        /\ UNCHANGED call
     \/ \E c \in BeginCodes :
          /\ call' = [call EXCEPT !.failStep = "beginTransaction", !.error = c]
          /\ lpc' = "rollback"
  /\ UNCHANGED <<allRecords, batchSize, hasCallback, i, stats, table, txn,
                 acquired, released, result, log, thrownBy>>

\* await connection.execute(query, values): the multi-row insert; when it fails
\* at record j the rows before j are pending in the transaction
Execute ==
  /\ UNCHANGED <<mapperVars, readerVars, citasVars, recibosVars,
               sanitizerVars, authVars, notifyVars, insertVars, encuestasVars, templatesVars, plantillasVars>>
  /\ lpc = "execute"
  /\ \/ /\ txn' = Range(batchOf(i))
        /\ lpc' = "commit"
        /\ UNCHANGED call
     \/ \E j \in 1..Len(batchOf(i)), c \in ExecuteCodes :
          /\ txn' = Range(SubSeq(batchOf(i), 1, j - 1))
          /\ call' = [call EXCEPT !.failStep = "execute", !.error = c]
          /\ lpc' = "rollback"
  /\ UNCHANGED <<allRecords, batchSize, hasCallback, i, stats, table,
                 acquired, released, result, log, thrownBy>>

\* await connection.commit(); when it fails the store may or may not have
\* made the rows durable before the failure was reported
Commit ==
  /\ UNCHANGED <<mapperVars, readerVars, citasVars, recibosVars,
               sanitizerVars, authVars, notifyVars, insertVars, encuestasVars, templatesVars, plantillasVars>>
  /\ lpc = "commit"
  /\ \/ /\ table' = commit(table, txn)
        /\ txn' = {}
        /\ lpc' = "release"
        /\ UNCHANGED call
     \/ \E c \in CommitCodes, durable \in BOOLEAN :
          /\ table' = IF durable THEN commit(table, txn) ELSE table
          /\ txn' = IF durable THEN {} ELSE txn
          /\ call' = [call EXCEPT !.failStep = "commit", !.error = c]
          /\ lpc' = "rollback"
  /\ UNCHANGED <<allRecords, batchSize, hasCallback, i, stats,
                 acquired, released, result, log, thrownBy>>

\* catch (error) { await connection.rollback(); throw error }: a rollback that
\* fails replaces the error; the connection is lost and the store discards
\* its open transaction
Rollback ==
  /\ UNCHANGED <<mapperVars, readerVars, citasVars, recibosVars,
               sanitizerVars, authVars, notifyVars, insertVars, encuestasVars, templatesVars, plantillasVars>>
  /\ lpc = "rollback"
  /\ \/ /\ table' = rollback(table, txn)
        /\ UNCHANGED call
     \/ \E c \in RollbackCodes :
          /\ call' = [call EXCEPT !.error = c, !.rollbackFailed = TRUE]
          /\ UNCHANGED table
  /\ txn' = {}
  /\ lpc' = "release"
  /\ UNCHANGED <<allRecords, batchSize, hasCallback, i, stats,
                 acquired, released, result, log, thrownBy>>

\* finally { connection.release() }
Release ==
  /\ UNCHANGED <<mapperVars, readerVars, citasVars, recibosVars,
               sanitizerVars, authVars, notifyVars, insertVars, encuestasVars, templatesVars, plantillasVars>>
  /\ lpc = "release"
  /\ released' = release(released, call)
  /\ lpc' = "insertBatchEnd"
  /\ UNCHANGED <<allRecords, batchSize, hasCallback, i, stats, table, txn,
                 acquired, call, result, log, thrownBy>>

\* insertBatch returns its result (or the error escapes it)
InsertBatchEnd ==
  /\ UNCHANGED <<mapperVars, readerVars, citasVars, recibosVars,
               sanitizerVars, authVars, notifyVars, insertVars, encuestasVars, templatesVars, plantillasVars>>
  /\ lpc = "insertBatchEnd"
  /\ LET done == insertBatchCompletion(call, batchOf(i), i + 1) IN
       /\ log' = Append(log, [batch |-> i + 1, size |-> Len(batchOf(i)),
                              success |-> done.type = "return" /\ done.value.success,
                              failStep |-> call.failStep,
                              rollbackFailed |-> call.rollbackFailed,
                              code |-> call.error])
       /\ IF done.type = "return"
          THEN /\ result' = done.value
               /\ lpc' = "result"
               /\ UNCHANGED thrownBy
          ELSE /\ lpc' = "thrown"
               /\ thrownBy' = "store"
               /\ UNCHANGED result
  /\ UNCHANGED <<allRecords, batchSize, hasCallback, i, stats, table, txn,
                 acquired, released, call>>

\* if (result.success) {...} else {...}, and the call of onBatchComplete
RecordResult ==
  /\ UNCHANGED <<mapperVars, readerVars, citasVars, recibosVars,
               sanitizerVars, authVars, insertVars, encuestasVars, templatesVars, plantillasVars>>
  /\ lpc = "result"
  /\ stats' = updateStats(stats, result, i, i * batchSize, Len(batchOf(i)))
  /\ IF notify(hasCallback, result)
     THEN /\ lpc' = "callback"
          /\ notified' = Append(notified,
                                [success |-> result.success, batch |-> i + 1,
                                 totalBatches |-> stats.totalBatches])
          /\ UNCHANGED i
     ELSE /\ lpc' = "loop"
          /\ i' = i + 1
          /\ UNCHANGED notified
  /\ UNCHANGED <<allRecords, batchSize, hasCallback, table, txn,
                 acquired, released, call, result, log, thrownBy>>

\* await onBatchComplete(result, i + 1, totalBatches): it returns, or it throws
\* and processBatches rejects
OnBatchComplete ==
  /\ UNCHANGED <<mapperVars, readerVars, citasVars, recibosVars,
               sanitizerVars, authVars, notifyVars, insertVars, encuestasVars, templatesVars, plantillasVars>>
  /\ lpc = "callback"
  /\ \/ /\ lpc' = "loop"
        /\ i' = i + 1
        /\ UNCHANGED thrownBy
     \/ /\ lpc' = "thrown"
        /\ thrownBy' = "onBatchComplete"
        /\ UNCHANGED i
  /\ UNCHANGED <<allRecords, batchSize, hasCallback, stats, table, txn,
                 acquired, released, call, result, log>>

LoaderStep ==
  \/ ProcessBatchesReturn
  \/ InsertBatchCall
  \/ GetConnection
  \/ BeginTransaction
  \/ Execute
  \/ Commit
  \/ Rollback
  \/ Release
  \/ InsertBatchEnd
  \/ RecordResult
  \/ OnBatchComplete

-----------------------------------------------------------------------------
(* services/ai-mapper.service.js: inputs *)

Callers == {"requestA", "requestB"}
SequentialCallers == {"requestA"}

\* a string as a sequence of pieces: a piece of text, or the JSON text of an
\* array of ids
Text(t) == [kind |-> "text", text |-> t, ids |-> <<>>]
Json(ids) == [kind |-> "json", text |-> "", ids |-> ids]

\* entity types, as the pieces of their name around "_"
EntityTypes == {<<Text("tax")>>, <<Text("appointment"), Text("_"), Text("state")>>}

\* the options of the callers: taxes are mapped under the default policy,
\* appointment states with {allowManyToOne: true}
allowManyToOneOf(entityType) == entityType # <<Text("tax")>>

\* arguments of clearCache: an entity type, or none (null, the empty string)
ClearTypes == EntityTypes \cup {<<Text("appointment")>>, <<>>}

\* the id of an item that has no property id; JSON.stringify writes it null
undefined == -1

\* an item of apiResult: an object with an id, or an option of a form
\* endpoint, {value, text}, which has none
Item(id) == [id |-> id, value |-> undefined]
Option(value) == [id |-> undefined, value |-> value]

\* apiResult as the sequence of its items, dbResult as the sequence of
\* its items' first value
ApiResults ==
  {<<Item(1)>>, <<Item(2), Item(10)>>, <<Item(10), Item(2)>>,
   <<Option(1)>>, <<Option(2)>>}
DbResults == {<<3>>, <<4, 3>>}

\* what the oracle call can produce: a rejected request, or a message content
\* (possibly inside a markdown fence) holding some JSON text
ValidBody == [json |-> "object", error |-> "none", hasMessage |-> FALSE,
              mapperShape |-> "object", numeric |-> TRUE, missing |-> "array",
              injective |-> TRUE]
Bodies ==
  { ValidBody,
    [ValidBody EXCEPT !.injective = FALSE],
    [ValidBody EXCEPT !.numeric = FALSE],
    [ValidBody EXCEPT !.mapperShape = "array"],
    [ValidBody EXCEPT !.mapperShape = "undefined"],
    [ValidBody EXCEPT !.mapperShape = "null"],
    [ValidBody EXCEPT !.mapperShape = "string"],
    [ValidBody EXCEPT !.missing = "undefined"],
    [ValidBody EXCEPT !.missing = "object"],
    [ValidBody EXCEPT !.error = "NO_MATCH", !.hasMessage = TRUE,
                      !.mapperShape = "undefined", !.missing = "undefined"],
    [ValidBody EXCEPT !.error = "NO_MATCH",
                      !.mapperShape = "undefined", !.missing = "undefined"],
    [ValidBody EXCEPT !.json = "invalid"],
    [ValidBody EXCEPT !.json = "null"],
    [ValidBody EXCEPT !.json = "number"] }
OracleResponses ==
  {[status |-> "rejected", fence |-> "none", body |-> ValidBody]}
  \cup {[status |-> "ok", fence |-> "none", body |-> b] : b \in Bodies}
  \cup {[status |-> "ok", fence |-> f, body |-> ValidBody] :
          f \in {"json", "plain", "unclosed"}}

NoResponse == [status |-> "none", fence |-> "none", body |-> ValidBody]

-----------------------------------------------------------------------------
(* services/ai-mapper.service.js: generateCacheKey *)

\* the decimal digits of n, the string a number is compared by in sort()
RECURSIVE Digits(_)
Digits(n) == IF n < 10 THEN <<n>> ELSE Digits(n \div 10) \o <<n % 10>>

\* a < b in string order
RECURSIVE LexLess(_, _)
LexLess(a, b) ==
  IF a = <<>> THEN b # <<>>
  ELSE IF b = <<>> THEN FALSE
  ELSE IF a[1] # b[1] THEN a[1] < b[1]
  ELSE LexLess(Tail(a), Tail(b))

RECURSIVE InsertSorted(_, _)
InsertSorted(x, s) ==
  IF s = <<>> THEN <<x>>
  ELSE IF x # undefined
          /\ (s[1] = undefined \/ LexLess(Digits(x), Digits(s[1])))
       THEN <<x>> \o s
  ELSE <<s[1]>> \o InsertSorted(x, Tail(s))

\* Array.prototype.sort() with no comparator: ascending by string form,
\* undefined last
RECURSIVE sort(_)
sort(s) == IF s = <<>> THEN <<>> ELSE InsertSorted(s[1], sort(Tail(s)))

\* `${entityType}_${apiHash}_${dbHash}`, the hashes being the JSON text of the
\* sorted ids
generateCacheKey(entityType, apiResult, dbResult) ==
  entityType \o <<Text("_"),
                  Json(sort([x \in 1..Len(apiResult) |-> apiResult[x].id])),
                  Text("_"), Json(sort(dbResult))>>

-----------------------------------------------------------------------------
(* services/ai-mapper.service.js: the Map mapperCache *)

\* (faulty variant: the lookup never hits)
cacheNeverHas(cache, key) == FALSE
cacheHas(cache, key) == \E e \in cache : e[1] = key

cacheGet(cache, key) == (CHOOSE e \in cache : e[1] = key)[2]

cacheSet(cache, key, value) == {e \in cache : e[1] # key} \cup {<<key, value>>}

\* key.startsWith(entityType + "_")
startsWith(key, entityType) ==
  /\ Len(entityType) + 1 <= Len(key)
  /\ SubSeq(key, 1, Len(entityType) + 1) = entityType \o <<Text("_")>>

\* clearCache(entityType): if (entityType) {...} else mapperCache.clear()
clearCache(cache, entityType) ==
  IF entityType = <<>> THEN {}
  ELSE {e \in cache : ~startsWith(e[1], entityType)}

-----------------------------------------------------------------------------
(* services/ai-mapper.service.js: mapData, from the oracle's answer on *)

\* the result object parsed from a body; obj names the object
parsed(body, obj) ==
  [obj |-> obj, error |-> body.error, hasMessage |-> body.hasMessage,
   mapperShape |-> body.mapperShape, numeric |-> body.numeric,
   missing |-> body.missing, injective |-> body.injective]

\* the object the catch block returns
errorResult(obj) ==
  [obj |-> obj, error |-> "AI_MAPPING_ERROR", hasMessage |-> TRUE,
   mapperShape |-> "undefined", numeric |-> FALSE, missing |-> "undefined",
   injective |-> TRUE]

NoReturn == [obj |-> 0, error |-> "none", hasMessage |-> FALSE,
             mapperShape |-> "undefined", numeric |-> FALSE,
             missing |-> "undefined", injective |-> TRUE]

\* between the structural checks and mapperCache.set nothing looks at the
\* values of mapper: allowManyToOne only adds a paragraph to the prompt
\* (variant with an injectivity check under the one-to-one policy)
injectiveOrAllowed(body, allowManyToOne) == allowManyToOne \/ body.injective
oracleTrusted(body, allowManyToOne) == TRUE

\* the body of the try block after the await: what it does with a response.
\* "threw" when a statement throws, else the value returned and whether it
\* was stored in the cache first
tryBlock(resp, obj, allowManyToOne) ==
  IF resp.status = "rejected" THEN [end |-> "threw", store |-> FALSE, value |-> NoReturn]
  ELSE IF resp.fence = "unclosed" THEN [end |-> "threw", store |-> FALSE, value |-> NoReturn]
  ELSE IF resp.body.json = "invalid" THEN [end |-> "threw", store |-> FALSE, value |-> NoReturn]
  ELSE IF resp.body.json = "null" THEN [end |-> "threw", store |-> FALSE, value |-> NoReturn]
  ELSE IF resp.body.json = "object" /\ resp.body.error # "none"
       THEN [end |-> "returned", store |-> FALSE, value |-> parsed(resp.body, obj)]
  ELSE IF resp.body.json # "object"
          \/ resp.body.mapperShape \notin {"object", "array"}
       THEN [end |-> "threw", store |-> FALSE, value |-> NoReturn]
  ELSE IF resp.body.missing # "array"
       THEN [end |-> "threw", store |-> FALSE, value |-> NoReturn]
  ELSE IF ~oracleTrusted(resp.body, allowManyToOne)
       THEN [end |-> "threw", store |-> FALSE, value |-> NoReturn]
  ELSE [end |-> "returned", store |-> TRUE, value |-> parsed(resp.body, obj)]

\* the catch block of mapData: the error becomes a returned error object
\* (faulty variant: the catch block rethrows)
mapDataRethrow(attempt, obj) ==
  IF attempt.end = "threw"
  THEN [end |-> "threw", store |-> FALSE, value |-> NoReturn]
  ELSE attempt

\* (faulty variant: the error object is stored in the cache)
catchStores(attempt, obj) ==
  IF attempt.end = "threw"
  THEN [end |-> "returned", store |-> TRUE, value |-> errorResult(obj)]
  ELSE attempt

mapDataCatch(attempt, obj) ==
  IF attempt.end = "threw"
  THEN [end |-> "returned", store |-> FALSE, value |-> errorResult(obj)]
  ELSE attempt

Idle == [pc |-> "idle", entityType |-> <<>>, apiResult |-> <<>>, dbResult |-> <<>>,
         allowManyToOne |-> FALSE]

Finished(c, m, invoked, resp, done) ==
  [op |-> "mapData", caller |-> c, entityType |-> m.entityType,
   apiResult |-> m.apiResult, dbResult |-> m.dbResult,
   allowManyToOne |-> m.allowManyToOne, invoked |-> invoked,
   response |-> resp, end |-> done.end, ret |-> done.value]

Cleared == [op |-> "clearCache", caller |-> "none", entityType |-> <<>>,
            apiResult |-> <<>>, dbResult |-> <<>>, allowManyToOne |-> FALSE,
            invoked |-> FALSE,
            response |-> NoResponse, end |-> "returned", ret |-> NoReturn]

Nothing == [Cleared EXCEPT !.op = "none"]

\* the latest finished operation becomes the previous one
Older(h) == [h EXCEPT !.response = NoResponse]

-----------------------------------------------------------------------------
(* Reconciliation engine: actions *)

\* (variant: the options are part of the key)
cacheKeyWithOptions(m) ==
  generateCacheKey(m.entityType, m.apiResult, m.dbResult)
    \o <<Text(IF m.allowManyToOne THEN "manyToOne" ELSE "oneToOne")>>

\* const cacheKey = generateCacheKey(entityType, apiResult, dbResult)
cacheKeyOf(m) == generateCacheKey(m.entityType, m.apiResult, m.dbResult)

\* mapData up to the await of the oracle: the cache lookup, and on a hit the
\* return of the cached object
mapDataWith(c, e, a, d, allowManyToOne) ==
  /\ mcall[c].pc = "idle"
  /\ started < MaxCalls
  /\ started' = started + 1
  /\ LET m == [pc |-> "awaitOracle", entityType |-> e, apiResult |-> a,
               dbResult |-> d, allowManyToOne |-> allowManyToOne]
         key == cacheKeyOf(m) IN
       IF cacheHas(mapperCache, key)
       THEN /\ last' = Finished(c, m, FALSE, NoResponse,
                                [end |-> "returned", store |-> FALSE,
                                 value |-> cacheGet(mapperCache, key)])
            /\ prev' = Older(last)
            /\ UNCHANGED <<mcall, oracleCalls>>
       ELSE /\ mcall' = [mcall EXCEPT ![c] = m]
            /\ oracleCalls' = oracleCalls + 1
            /\ UNCHANGED <<last, prev>>
  /\ UNCHANGED mapperCache
  /\ UNCHANGED <<loaderVars, readerVars, citasVars, recibosVars,
               sanitizerVars, authVars, notifyVars, insertVars, encuestasVars, templatesVars, plantillasVars>>

\* mapData from the oracle's answer to its return
oracleRespond(c) ==
  /\ mcall[c].pc = "awaitOracle"
  /\ \E resp \in OracleResponses :
       LET m == mcall[c]
           done == mapDataCatch(tryBlock(resp, oracleCalls, m.allowManyToOne),
                                oracleCalls)
           key == cacheKeyOf(m) IN
         /\ mapperCache' = IF done.store
                           THEN cacheSet(mapperCache, key, done.value)
                           ELSE mapperCache
         /\ last' = Finished(c, m, TRUE, resp, done)
         /\ prev' = Older(last)
  /\ mcall' = [mcall EXCEPT ![c] = Idle]
  /\ UNCHANGED <<oracleCalls, started>>
  /\ UNCHANGED <<loaderVars, readerVars, citasVars, recibosVars,
               sanitizerVars, authVars, notifyVars, insertVars, encuestasVars, templatesVars, plantillasVars>>

\* mapData as the routes call it
mapDataCall(c) ==
  \E e \in EntityTypes, a \in ApiResults, d \in DbResults :
    mapDataWith(c, e, a, d, allowManyToOneOf(e))

MapDataCall == \E c \in SequentialCallers : mapDataCall(c)

OracleRespond == \E c \in SequentialCallers : oracleRespond(c)

\* clearCache(entityType) and clearCache(); a clear right after a clear is
\* not noted again
ClearCache ==
  /\ \E t \in ClearTypes :
       /\ mapperCache' = clearCache(mapperCache, t)
       /\ last' = [Cleared EXCEPT !.entityType = t]
  /\ prev' = IF last.op = "clearCache" THEN prev ELSE Older(last)
  /\ UNCHANGED <<mcall, oracleCalls, started>>
  /\ UNCHANGED <<loaderVars, readerVars, citasVars, recibosVars,
               sanitizerVars, authVars, notifyVars, insertVars, encuestasVars, templatesVars, plantillasVars>>

MapperStep ==
  \/ MapDataCall
  \/ OracleRespond
  \/ ClearCache

\* two migration requests handled by the process: the route handler of one
\* runs while the other awaits the oracle, the store or the source
RequestCallsMapData == \E c \in Callers : mapDataCall(c)

RequestOracleRespond == \E c \in Callers : oracleRespond(c)

RequestsStep ==
  \/ RequestCallsMapData
  \/ RequestOracleRespond

\* mapData called for one entity type under either policy
MapDataAnyPolicy ==
  \E c \in SequentialCallers, a \in ApiResults, d \in DbResults,
     allowManyToOne \in BOOLEAN :
    mapDataWith(c, <<Text("tax")>>, a, d, allowManyToOne)

PoliciesStep ==
  \/ MapDataAnyPolicy
  \/ OracleRespond

-----------------------------------------------------------------------------
(* utils/api-client.js: getAllPaginated and processPaginatedInBatches *)

Modes == {"getAllPaginated", "processPaginatedInBatches"}

\* the records the source serves for the page at an offset: limit records from
\* the offset on, as far as the source has any
pageRecords(offset) ==
  [x \in 1..(Min(offset + limit, total) - Min(offset, total)) |-> offset + x]

NotReturned == [success |-> FALSE, returned |-> FALSE, totalCount |-> 0,
                count |-> 0]

\* what a failed request does to the run: fatal for the first page, and the
\* page is skipped (continue) for a later one
\* (faulty variant: any failed request ends the operation)
failureAlwaysFatal(p) == "fatal"
onFailedRequest(p) == IF p = 0 THEN "fatal" ELSE "skip"

\* await processFn(...): the operation is suspended until the call finishes
\* (faulty variant: processFn is called without await)
notAwaited(p) == "loop"
awaitProcessFn(p) == "callback"

\* the arguments of processFn(results, page, totalPages), the records by
\* their number
\* (faulty variant: the page number of the log message is passed, page + 1)
processFnArgsPageNumber(records, p, tp) ==
  [pageIndex |-> p + 1, totalPages |-> tp, records |-> Len(records)]
processFnArgs(records, p, tp) ==
  [pageIndex |-> p, totalPages |-> tp, records |-> Len(records)]

\* const totalPages: what totalPages is after a later answer reporting count
\* (faulty variant: totalPages is computed again from every answer's count)
totalPagesFromEveryCount(tp, count) == Ceil(count, limit)
totalPagesAfter(tp, count) == tp

\* the bindings that refer to a page's records while page p is processed:
\* firstResponse for the whole call, response for the iteration
heldDuring(p) == {0, p}

\* the first request: get(client, endpoint, {offset: 0})
FirstRequest ==
  /\ rpc = "start"
  /\ requests' = Append(requests, 0)
  /\ inFlight' = inFlight + 1
  /\ rpc' = "awaitFirst"
  /\ UNCHANGED <<mode, limit, total, page, totalPages, failedPages, callbacks,
                 active, held, allResults, rret, caught, lastCount>>
  /\ UNCHANGED <<loaderVars, mapperVars, citasVars, recibosVars,
               sanitizerVars, authVars, notifyVars, insertVars, encuestasVars, templatesVars, plantillasVars>>

\* the first answer: a failure ends the operation; else totalPages is set and
\* the first page is materialized or handed to processFn
FirstResponse ==
  /\ rpc = "awaitFirst"
  /\ inFlight' = inFlight - 1
  /\ \/ /\ failedPages' = failedPages \cup {0}
        /\ IF onFailedRequest(0) = "fatal"
           THEN /\ rret' = [NotReturned EXCEPT !.returned = TRUE]
                /\ rpc' = "done"
                /\ UNCHANGED <<page, totalPages>>
           ELSE /\ rpc' = "loop"
                /\ page' = 1
                /\ totalPages' = Ceil(total, limit)
                /\ UNCHANGED rret
        /\ UNCHANGED <<callbacks, active, held, allResults, lastCount>>
     \/ /\ totalPages' = Ceil(total, limit)
        /\ lastCount' = total
        /\ IF mode = "getAllPaginated"
           THEN /\ allResults' = allResults \o pageRecords(0)
                /\ rpc' = "loop"
                /\ page' = 1
                /\ UNCHANGED <<callbacks, active, held>>
           ELSE /\ callbacks' = Append(callbacks,
                     processFnArgs(pageRecords(0), 0, Ceil(total, limit)))
                /\ active' = active \cup {0}
                /\ held' = heldDuring(0)
                /\ rpc' = awaitProcessFn(0)
                /\ page' = IF awaitProcessFn(0) = "callback" THEN 0 ELSE 1
                /\ UNCHANGED allResults
        /\ UNCHANGED <<failedPages, rret>>
  /\ UNCHANGED <<mode, limit, total, requests, caught>>
  /\ UNCHANGED <<loaderVars, mapperVars, citasVars, recibosVars,
               sanitizerVars, authVars, notifyVars, insertVars, encuestasVars, templatesVars, plantillasVars>>

\* a processFn call finishes: it returns and the loop goes on, or it throws
\* and the catch block returns success: false
ProcessFnReturn ==
  /\ \E p \in active :
       /\ active' = active \ {p}
       /\ \/ /\ IF rpc = "callback"
                THEN rpc' = "loop" /\ page' = page + 1
                ELSE UNCHANGED <<rpc, page>>
             /\ UNCHANGED <<rret, caught>>
          \/ /\ rpc = "callback"
             /\ rpc' = "done"
             /\ caught' = "processFn"
             /\ rret' = [NotReturned EXCEPT !.returned = TRUE]
             /\ UNCHANGED page
  /\ held' = IF rpc' = "done" THEN {} ELSE held
  /\ UNCHANGED <<mode, limit, total, totalPages, requests, inFlight,
                 failedPages, callbacks, allResults, lastCount>>
  /\ UNCHANGED <<loaderVars, mapperVars, citasVars, recibosVars,
               sanitizerVars, authVars, notifyVars, insertVars, encuestasVars, templatesVars, plantillasVars>>

\* for (let page = 1; page < totalPages; page++): the request of the next page
PageRequest ==
  /\ rpc = "loop"
  /\ page < totalPages
  /\ requests' = Append(requests, page * limit)
  /\ inFlight' = inFlight + 1
  /\ rpc' = "awaitPage"
  /\ held' = IF mode = "processPaginatedInBatches" THEN {0} ELSE held
  /\ UNCHANGED <<mode, limit, total, page, totalPages, failedPages, callbacks,
                 active, allResults, rret, caught, lastCount>>
  /\ UNCHANGED <<loaderVars, mapperVars, citasVars, recibosVars,
               sanitizerVars, authVars, notifyVars, insertVars, encuestasVars, templatesVars, plantillasVars>>

\* the answer for a later page: a failure skips the page
PageResponse ==
  /\ rpc = "awaitPage"
  /\ inFlight' = inFlight - 1
  /\ \/ /\ failedPages' = failedPages \cup {page}
        /\ IF onFailedRequest(page) = "fatal"
           THEN /\ rret' = [NotReturned EXCEPT !.returned = TRUE]
                /\ rpc' = "done"
                /\ UNCHANGED page
           ELSE /\ rpc' = "loop"
                /\ page' = page + 1
                /\ UNCHANGED rret
        /\ UNCHANGED <<callbacks, active, held, allResults, lastCount,
                       totalPages>>
     \/ /\ \E count \in 0..MaxTotal :
             /\ lastCount' = count
             /\ totalPages' = totalPagesAfter(totalPages, count)
        /\ IF mode = "getAllPaginated"
           THEN /\ allResults' = allResults \o pageRecords(page * limit)
                /\ rpc' = "loop"
                /\ page' = page + 1
                /\ UNCHANGED <<callbacks, active, held>>
           ELSE /\ callbacks' = Append(callbacks,
                     processFnArgs(pageRecords(page * limit), page, totalPages))
                /\ active' = active \cup {page}
                /\ held' = heldDuring(page)
                /\ rpc' = awaitProcessFn(page)
                /\ page' = IF awaitProcessFn(page) = "callback" THEN page
                           ELSE page + 1
                /\ UNCHANGED allResults
        /\ UNCHANGED <<failedPages, rret>>
  /\ UNCHANGED <<mode, limit, total, requests, caught>>
  /\ UNCHANGED <<loaderVars, mapperVars, citasVars, recibosVars,
               sanitizerVars, authVars, notifyVars, insertVars, encuestasVars, templatesVars, plantillasVars>>

\* the loop is over: return success: true with the totals
ReaderReturn ==
  /\ rpc = "loop"
  /\ ~(page < totalPages)
  /\ rpc' = "done"
  /\ rret' = [success |-> TRUE, returned |-> TRUE, totalCount |-> total,
              count |-> IF mode = "getAllPaginated" THEN Len(allResults)
                        ELSE totalPages]
  /\ held' = {}
  /\ UNCHANGED <<mode, limit, total, page, totalPages, requests, inFlight,
                 failedPages, callbacks, active, allResults, caught, lastCount>>
  /\ UNCHANGED <<loaderVars, mapperVars, citasVars, recibosVars,
               sanitizerVars, authVars, notifyVars, insertVars, encuestasVars, templatesVars, plantillasVars>>

ReaderStep ==
  \/ FirstRequest
  \/ FirstResponse
  \/ ProcessFnReturn
  \/ PageRequest
  \/ PageResponse
  \/ ReaderReturn

-----------------------------------------------------------------------------
(* migrations/koibox/citas.js: inputs and data *)

\* bounds of the flow: appointments of the source, and the page size and the
\* chunk size the route passes (100 and 100), scaled down
MaxAppointments == 3
PageLimit == 2
ChunkSize == 2

\* source ids are assigned by the source, apart from the ids the store generates
SourceIdBase == 100
SourceId(x) == SourceIdBase + x

\* null, and the placeholder a secondary record carries until it is rewritten
Null == 0
PENDING == -1

\* an appointment of the source by what the transform reads of it: its patient
\* (cliente) is absent, known to patientMapping or unknown; its doctor (user)
\* is absent, in doctorMapping.mapper or not; each service (servicios) is in
\* treatmentMapping.mapper or not
AppointmentKinds ==
  { [cliente |-> "known", user |-> "mapped", servicios |-> <<"mapped", "mapped">>],
    [cliente |-> "known", user |-> "mapped", servicios |-> <<>>],
    [cliente |-> "known", user |-> "unmapped", servicios |-> <<"mapped">>],
    [cliente |-> "none", user |-> "none",
     servicios |-> <<"unmapped", "mapped", "mapped">>],
    [cliente |-> "unknown", user |-> "mapped", servicios |-> <<"mapped", "mapped">>] }

\* the preparation steps of a route, in order. /citas: the filters request,
\* the five reconciliations, the patients query; /recibos: the patients
\* query and the two reconciliations
Steps ==
  IF flow = "citas"
  THEN <<"filters", "tax", "doctor", "treatment", "appointment_state", "space",
         "patients">>
  ELSE <<"patients", "doctor", "tax">>

\* where the route goes after a preparation step that succeeds
afterStep == IF step < Len(Steps) THEN "prepare" ELSE "firstFetch"

\* what a preparation step can end in
StepOutcomes(name) ==
  IF name \in {"filters", "patients"} THEN {"ok", "failed"}
  ELSE IF name = "space" THEN {"absent", "threw", "error", "missing", "mapping"}
  ELSE {"unavailable", "threw", "error", "missing", "mapping"}

\* rows citas may hold before the run: one primary row of an earlier run of
\* the same tenant, or one of another tenant, for the first source id
RowBefore(tenant) ==
  [id_cita |-> 1, old_id |-> SourceId(1), service |-> 1,
   id_cita_reference |-> Null, tenant |-> tenant, id_medico |-> "id",
   id_tratamiento |-> "id"]
TablesBefore == {<<>>, <<RowBefore("own")>>, <<RowBefore("other")>>}

NoStats == [totalRecords |-> 0, totalBatches |-> 0, successfulBatches |-> 0,
            failedBatches |-> 0, insertedRecords |-> 0, errors |-> <<>>,
            missingPatients |-> 0, missingDoctors |-> 0, missingTreatments |-> 0]

NoResponseSent == [status |-> 0, success |-> FALSE, error |-> "none"]

-----------------------------------------------------------------------------
(* migrations/koibox/citas.js: the transform of a page *)

\* the indices of the appointments the source serves on page p
pageItems(p) ==
  [x \in 1..(Min((p + 1) * PageLimit, Len(appointments))
             - Min(p * PageLimit, Len(appointments))) |-> p * PageLimit + x]

\* services.map(...): one record per service of an appointment, the first the
\* primary, or one primary record when it has no service; `service` stands
\* for the columns of the record that come from its service
appointmentRecords(a, id) ==
  LET services == IF Len(a.servicios) > 0 THEN a.servicios ELSE <<"none">> IN
    [k \in 1..Len(services) |->
       [old_id |-> id,
        service |-> k,
        id_medico |-> IF a.user = "mapped" THEN "id" ELSE "null",
        id_tratamiento |-> IF services[k] = "mapped" THEN "id" ELSE "null",
        id_cita_reference |-> IF k = 1 THEN Null ELSE PENDING,
        isPrimary |-> IF k = 1 THEN "true" ELSE "false",
        originalId |-> id]]

\* the callback of flatMap: nothing for an appointment whose patient is not in
\* patientMapping, else its records
recordsOf(a, id) ==
  IF a.cliente = "unknown" THEN <<>> ELSE appointmentRecords(a, id)

\* appointments.flatMap(...).filter(Boolean)
RECURSIVE flatMap(_)
flatMap(items) ==
  IF items = <<>> THEN <<>>
  ELSE recordsOf(appointments[items[1]], SourceId(items[1])) \o flatMap(Tail(items))

\* the number of elements of s equal to v
RECURSIVE CountOf(_, _)
CountOf(s, v) ==
  IF s = <<>> THEN 0 ELSE (IF s[1] = v THEN 1 ELSE 0) + CountOf(Tail(s), v)

\* the warning counters after the transform of the appointments of a page
RECURSIVE countWarnings(_, _)
countWarnings(gs, items) ==
  IF items = <<>> THEN gs
  ELSE LET a == appointments[items[1]] IN
    countWarnings(
      IF a.cliente = "unknown"
      THEN [gs EXCEPT !.missingPatients = @ + 1]
      ELSE [gs EXCEPT
              !.missingDoctors = @ + (IF a.user = "unmapped" THEN 1 ELSE 0),
              !.missingTreatments = @ + CountOf(a.servicios, "unmapped")],
      Tail(items))

\* transformedBatch.filter(apt => apt._isPrimary) and its complement
RECURSIVE filterPrimary(_, _)
filterPrimary(recs, flag) ==
  IF recs = <<>> THEN <<>>
  ELSE (IF recs[1].isPrimary = flag THEN <<recs[1]>> ELSE <<>>)
       \o filterPrimary(Tail(recs), flag)

\* ({ _isPrimary, _originalId, ...appointment }) => appointment
cleanPrimary(r) == [r EXCEPT !.isPrimary = "absent", !.originalId = Null]

\* primaryIdMapping[_originalId] || null
\* (faulty variant: the source id is used as the reference)
lookupSourceId(mapping, id) == id
lookup(mapping, id) ==
  IF \E e \in mapping : e[1] = id
  THEN (CHOOSE e \in mapping : e[1] = id)[2]
  ELSE Null

\* ({ _isPrimary, _originalId, id_cita_reference, ...appointment }) =>
\*   ({ ...appointment, id_cita_reference: primaryIdMapping[_originalId] || null })
\* (faulty variant: the reference is only rewritten when the primary is found)
cleanSecondaryIfFound(r, mapping) ==
  [r EXCEPT !.isPrimary = "absent", !.originalId = Null,
            !.id_cita_reference = IF \E e \in mapping : e[1] = r.originalId
                                  THEN lookup(mapping, r.originalId) ELSE @]
cleanSecondary(r, mapping) ==
  [r EXCEPT !.isPrimary = "absent", !.originalId = Null,
            !.id_cita_reference = lookup(mapping, r.originalId)]

-----------------------------------------------------------------------------
(* migrations/koibox/citas.js: the loads and the re-query of a page *)

\* processBatches(table, records, 100) as the flow sees it: ok says which of
\* its chunks succeed; the statistics it returns
RECURSIVE failedChunks(_, _)
failedChunks(ok, x) ==
  IF x > Len(ok) THEN <<>>
  ELSE (IF ok[x] THEN <<>> ELSE <<x>>) \o failedChunks(ok, x + 1)

\* the records of the chunks that succeed, in order
RECURSIVE insertedOf(_, _, _)
insertedOf(recs, ok, x) ==
  IF x > Len(ok) THEN <<>>
  ELSE (IF ok[x] THEN slice(recs, (x - 1) * ChunkSize, x * ChunkSize) ELSE <<>>)
       \o insertedOf(recs, ok, x + 1)

batchStats(recs, ok) ==
  [totalRecords |-> Len(recs), totalBatches |-> Len(ok),
   successfulBatches |-> Len(ok) - Len(failedChunks(ok, 1)),
   failedBatches |-> Len(failedChunks(ok, 1)),
   insertedRecords |-> Len(insertedOf(recs, ok, 1)),
   errors |-> failedChunks(ok, 1)]

\* the possible outcomes of the chunks of a processBatches call
ChunkOutcomes(recs) == [1..Ceil(Len(recs), ChunkSize) -> BOOLEAN]

\* globalStats.x += stats.x; globalStats.errors.push(...stats.errors)
accumulate(gs, st) ==
  [gs EXCEPT !.totalRecords = @ + st.totalRecords,
             !.totalBatches = @ + st.totalBatches,
             !.successfulBatches = @ + st.successfulBatches,
             !.failedBatches = @ + st.failedBatches,
             !.insertedRecords = @ + st.insertedRecords,
             !.errors = @ \o st.errors]

\* the rows an INSERT of recs adds to the table: the store generates id_cita
RECURSIVE insertRows(_, _)
insertRows(tbl, recs) ==
  IF recs = <<>> THEN tbl
  ELSE insertRows(
         Append(tbl, [id_cita |-> Len(tbl) + 1, old_id |-> recs[1].old_id,
                      service |-> recs[1].service,
                      id_cita_reference |-> recs[1].id_cita_reference,
                      tenant |-> "own", id_medico |-> recs[1].id_medico,
                      id_tratamiento |-> recs[1].id_tratamiento]),
         Tail(recs))

\* SELECT id_cita, old_id FROM citas WHERE old_id IN (...) AND
\* id_cita_reference IS NULL AND id_clinica = ? AND id_super_clinica = ?
selectPrimaries(tbl, oldIds) ==
  {<<tbl[x].old_id, tbl[x].id_cita>> : x \in
     {y \in 1..Len(tbl) : /\ tbl[y].old_id \in oldIds
                          /\ tbl[y].id_cita_reference = Null
                          /\ tbl[y].tenant = "own"}}

\* primaryIdMapping after the forEach over the rows selected: for each old_id
\* the id of the row that comes last, the order of the rows being the store's
idMappings(rows) ==
  {m \in SUBSET rows :
     /\ \A r \in rows : \E e \in m : e[1] = r[1]
     /\ \A e1, e2 \in m : e1[1] = e2[1] => e1 = e2}

\* the order of the statements of the page callback, each awaited
\* (faulty variant: the load of the primaries is not awaited)
primariesNotAwaited(stage) ==
  IF stage = "primaries" THEN "requery"
  ELSE IF stage = "requery" THEN "secondaries"
  ELSE IF stage = "secondaries" THEN "awaitSecondaries"
  ELSE "pageDone"
nextStage(stage) ==
  IF stage = "primaries" THEN "awaitPrimaries"
  ELSE IF stage = "awaitPrimaries" THEN "requery"
  ELSE IF stage = "requery" THEN "secondaries"
  ELSE IF stage = "secondaries" THEN "awaitSecondaries"
  ELSE "pageDone"

\* const totalPages = Math.ceil(totalCount / limit) of the stream of the route
streamPages ==
  Ceil(IF flow = "citas" THEN Len(appointments) ELSE Len(sales), PageLimit)

\* the error code of the 500 answered when the stream returns success: false
streamError ==
  IF flow = "citas" THEN "FETCH_APPOINTMENTS_ERROR" ELSE "FETCH_SALES_ERROR"

-----------------------------------------------------------------------------
(* Appointments flow: actions *)

failure(status, error) == [status |-> status, success |-> FALSE, error |-> error]

\* Step 1: get(koiboxClient, "/agenda/citas/form/"); a failure is answered 500
FetchFilters ==
  /\ fpc = "prepare"
  /\ Steps[step] = "filters"
  /\ \/ /\ step' = step + 1
        /\ UNCHANGED <<fpc, httpResponse>>
     \/ /\ fpc' = "done"
        /\ httpResponse' = failure(500, "KOIBOX_API_ERROR")
        /\ UNCHANGED step
  /\ UNCHANGED <<reconciled, appointments, citas, preexisting, currentPage,
                 pageRequests, pagesFailed, transformedBatch,
                 primaryIdMapping, globalStats, loads, stages>>
  /\ UNCHANGED <<loaderVars, mapperVars, readerVars, recibosVars,
               sanitizerVars, authVars, notifyVars, insertVars, encuestasVars, templatesVars, plantillasVars>>

\* Steps 2 to 6: fetch the source items, query the target items, mapData; an
\* error result is answered 500, a non-empty missing list 400
Reconcile ==
  /\ fpc = "prepare"
  /\ Steps[step] \notin {"filters", "patients"}
  /\ \E o \in StepOutcomes(Steps[step]) :
       /\ reconciled' = IF o \in {"error", "missing", "mapping"}
                        THEN Append(reconciled,
                                    [entityType |-> Steps[step], outcome |-> o])
                        ELSE reconciled
       /\ IF o \in {"mapping", "absent"}
          THEN /\ step' = step + 1
               /\ fpc' = afterStep
               /\ UNCHANGED httpResponse
          ELSE /\ fpc' = "done"
               /\ httpResponse' =
                    IF o = "missing" THEN failure(400, "MISSING")
                    ELSE IF o = "error" THEN failure(500, "MAPPING_ERROR")
                    ELSE IF o = "threw" THEN failure(500, "MIGRATION_ERROR")
                    ELSE failure(500, "KOIBOX_API_ERROR")
               /\ UNCHANGED step
  /\ UNCHANGED <<appointments, citas, preexisting, currentPage, pageRequests,
                 pagesFailed, transformedBatch, primaryIdMapping,
                 globalStats, loads, stages>>
  /\ UNCHANGED <<loaderVars, mapperVars, readerVars, recibosVars,
               sanitizerVars, authVars, notifyVars, insertVars, encuestasVars, templatesVars, plantillasVars>>

\* Step 7: query the patients of the tenant for patientMapping
LoadPatients ==
  /\ fpc = "prepare"
  /\ Steps[step] = "patients"
  /\ \/ /\ step' = step + 1
        /\ fpc' = afterStep
        /\ UNCHANGED httpResponse
     \/ /\ fpc' = "done"
        /\ httpResponse' = failure(500, "MIGRATION_ERROR")
        /\ UNCHANGED step
  /\ UNCHANGED <<reconciled, appointments, citas, preexisting,
                 currentPage, pageRequests, pagesFailed, transformedBatch,
                 primaryIdMapping, globalStats, loads, stages>>
  /\ UNCHANGED <<loaderVars, mapperVars, readerVars, recibosVars,
               sanitizerVars, authVars, notifyVars, insertVars, encuestasVars, templatesVars, plantillasVars>>

\* Step 8, processPaginatedInBatches: the first request; when it fails the
\* route answers 500
FirstPageFetch ==
  /\ fpc = "firstFetch"
  /\ pageRequests' = Append(pageRequests, 0)
  /\ \/ /\ fpc' = "callback"
        /\ currentPage' = 0
        /\ UNCHANGED <<pagesFailed, httpResponse>>
     \/ /\ pagesFailed' = pagesFailed \cup {0}
        /\ fpc' = "done"
        /\ httpResponse' = failure(500, streamError)
        /\ UNCHANGED currentPage
  /\ UNCHANGED <<step, reconciled, appointments, citas, preexisting,
                 transformedBatch, primaryIdMapping, globalStats, loads,
                 stages>>
  /\ UNCHANGED <<loaderVars, mapperVars, readerVars, recibosVars,
               sanitizerVars, authVars, notifyVars, insertVars, encuestasVars, templatesVars, plantillasVars>>

\* the page callback up to the split into primaries and secondaries
Transform ==
  /\ fpc = "callback"
  /\ transformedBatch' = flatMap(pageItems(currentPage))
  /\ globalStats' = countWarnings(globalStats, pageItems(currentPage))
  /\ primaryIdMapping' = {}
  /\ fpc' = IF Len(transformedBatch') = 0 THEN "pageDone" ELSE "primaries"
  /\ UNCHANGED <<step, reconciled, appointments, citas, preexisting,
                 currentPage, pageRequests, pagesFailed, loads, stages,
                 httpResponse>>
  /\ UNCHANGED <<loaderVars, mapperVars, readerVars, recibosVars,
               sanitizerVars, authVars, notifyVars, insertVars, encuestasVars, templatesVars, plantillasVars>>

\* if (primaryAppointments.length > 0) processBatches("citas", clean..., 100)
SubmitPrimaries ==
  /\ fpc = "primaries"
  /\ LET prim == filterPrimary(transformedBatch, "true") IN
       IF Len(prim) > 0
       THEN /\ loads' = Append(loads,
                 [page |-> currentPage, kind |-> "primary", failedBatches |-> 0,
                  records |-> [x \in 1..Len(prim) |-> cleanPrimary(prim[x])]])
            /\ fpc' = nextStage("primaries")
       ELSE /\ fpc' = nextStage("awaitPrimaries")
            /\ UNCHANGED loads
  /\ UNCHANGED <<step, reconciled, appointments, citas, preexisting,
                 currentPage, pageRequests, pagesFailed, transformedBatch,
                 primaryIdMapping, globalStats, stages, httpResponse>>
  /\ UNCHANGED <<loaderVars, mapperVars, readerVars, recibosVars,
               sanitizerVars, authVars, notifyVars, insertVars, encuestasVars, templatesVars, plantillasVars>>

\* the load of the primaries returns its statistics, which are accumulated
PrimariesReturn ==
  /\ fpc = "awaitPrimaries"
  /\ LET recs == loads[Len(loads)].records IN
       \E ok \in ChunkOutcomes(recs) :
         /\ citas' = insertRows(citas, insertedOf(recs, ok, 1))
         /\ globalStats' = accumulate(globalStats, batchStats(recs, ok))
         /\ loads' = [loads EXCEPT ![Len(loads)].failedBatches =
                                     batchStats(recs, ok).failedBatches]
  /\ stages' = stages \cup {<<currentPage, "primariesLoaded">>}
  /\ fpc' = nextStage("awaitPrimaries")
  /\ UNCHANGED <<step, reconciled, appointments, preexisting, currentPage,
                 pageRequests, pagesFailed, transformedBatch,
                 primaryIdMapping, httpResponse>>
  /\ UNCHANGED <<loaderVars, mapperVars, readerVars, recibosVars,
               sanitizerVars, authVars, notifyVars, insertVars, encuestasVars, templatesVars, plantillasVars>>

\* if (secondaryAppointments.length > 0): the re-query of the primaries by
\* old_id; when the query rejects the callback throws, the stream returns
\* success: false and the route answers 500
Requery ==
  /\ fpc = "requery"
  /\ LET sec == filterPrimary(transformedBatch, "false") IN
       IF Len(sec) > 0
       THEN \/ /\ \E m \in idMappings(selectPrimaries(citas,
                              {sec[x].originalId : x \in 1..Len(sec)})) :
                    primaryIdMapping' = m
               /\ stages' = stages \cup {<<currentPage, "requeried">>}
               /\ fpc' = nextStage("requery")
               /\ UNCHANGED httpResponse
            \/ /\ fpc' = "done"
               /\ httpResponse' = failure(500, streamError)
               /\ UNCHANGED <<primaryIdMapping, stages>>
       ELSE /\ fpc' = "pageDone"
            /\ UNCHANGED <<primaryIdMapping, stages, httpResponse>>
  /\ UNCHANGED <<step, reconciled, appointments, citas, preexisting,
                 currentPage, pageRequests, pagesFailed, transformedBatch,
                 globalStats, loads>>
  /\ UNCHANGED <<loaderVars, mapperVars, readerVars, recibosVars,
               sanitizerVars, authVars, notifyVars, insertVars, encuestasVars, templatesVars, plantillasVars>>

\* the secondaries get their reference and are handed to processBatches
SubmitSecondaries ==
  /\ fpc = "secondaries"
  /\ LET sec == filterPrimary(transformedBatch, "false") IN
       loads' = Append(loads,
         [page |-> currentPage, kind |-> "secondary", failedBatches |-> 0,
          records |-> [x \in 1..Len(sec) |->
                         cleanSecondary(sec[x], primaryIdMapping)]])
  /\ fpc' = nextStage("secondaries")
  /\ UNCHANGED <<step, reconciled, appointments, citas, preexisting,
                 currentPage, pageRequests, pagesFailed, transformedBatch,
                 primaryIdMapping, globalStats, stages, httpResponse>>
  /\ UNCHANGED <<loaderVars, mapperVars, readerVars, recibosVars,
               sanitizerVars, authVars, notifyVars, insertVars, encuestasVars, templatesVars, plantillasVars>>

\* the load of the secondaries returns its statistics, which are accumulated
SecondariesReturn ==
  /\ fpc = "awaitSecondaries"
  /\ LET recs == loads[Len(loads)].records IN
       \E ok \in ChunkOutcomes(recs) :
         /\ citas' = insertRows(citas, insertedOf(recs, ok, 1))
         /\ globalStats' = accumulate(globalStats, batchStats(recs, ok))
         /\ loads' = [loads EXCEPT ![Len(loads)].failedBatches =
                                     batchStats(recs, ok).failedBatches]
  /\ stages' = stages \cup {<<currentPage, "secondariesLoaded">>}
  /\ fpc' = nextStage("awaitSecondaries")
  /\ UNCHANGED <<step, reconciled, appointments, preexisting, currentPage,
                 pageRequests, pagesFailed, transformedBatch,
                 primaryIdMapping, httpResponse>>
  /\ UNCHANGED <<loaderVars, mapperVars, readerVars, recibosVars,
               sanitizerVars, authVars, notifyVars, insertVars, encuestasVars, templatesVars, plantillasVars>>

\* processPaginatedInBatches, the loop: the request of the next page; a failed
\* request skips the page
NextPage ==
  /\ fpc = "pageDone"
  /\ currentPage + 1 < streamPages
  /\ pageRequests' = Append(pageRequests, currentPage + 1)
  /\ currentPage' = currentPage + 1
  /\ \/ /\ fpc' = "callback"
        /\ UNCHANGED pagesFailed
     \/ /\ pagesFailed' = pagesFailed \cup {currentPage + 1}
        /\ fpc' = "pageDone"
  /\ UNCHANGED <<step, reconciled, appointments, citas, preexisting,
                 transformedBatch, primaryIdMapping, globalStats, loads,
                 stages, httpResponse>>
  /\ UNCHANGED <<loaderVars, mapperVars, readerVars, recibosVars,
               sanitizerVars, authVars, notifyVars, insertVars, encuestasVars, templatesVars, plantillasVars>>

\* const success = insertStats.failedBatches === 0
statusOf(gs) == IF gs.failedBatches = 0 THEN 200 ELSE 207

\* Step 9: the stream has returned success: true; the response
Respond ==
  /\ fpc = "pageDone"
  /\ ~(currentPage + 1 < streamPages)
  /\ fpc' = "done"
  /\ httpResponse' = [status |-> statusOf(globalStats),
                      success |-> statusOf(globalStats) = 200, error |-> "none"]
  /\ UNCHANGED <<step, reconciled, appointments, citas, preexisting,
                 currentPage, pageRequests, pagesFailed, transformedBatch,
                 primaryIdMapping, globalStats, loads, stages>>
  /\ UNCHANGED <<loaderVars, mapperVars, readerVars, recibosVars,
               sanitizerVars, authVars, notifyVars, insertVars, encuestasVars, templatesVars, plantillasVars>>

CitasStep ==
  \/ FetchFilters
  \/ Reconcile
  \/ LoadPatients
  \/ FirstPageFetch
  \/ Transform
  \/ SubmitPrimaries
  \/ PrimariesReturn
  \/ Requery
  \/ SubmitSecondaries
  \/ SecondariesReturn
  \/ NextPage
  \/ Respond

-----------------------------------------------------------------------------
(* migrations/koibox/recibos (part_007): inputs and data *)

MaxSales == 3

\* the clients patientMapping has an entry for when the run starts
KnownClients == {1}

\* a sale of the source by what the flow reads of it: its client, whether its
\* doctor (assigned_to) is in doctorMapping.mapper, for each of its lines
\* (lineas_venta) whether its tax is in taxMapping.mapper, and whether it
\* names an appointment (cita)
SaleKinds ==
  { [cliente |-> 1, assigned |-> "mapped", lineas |-> <<"mapped">>, cita |-> FALSE],
    [cliente |-> 2, assigned |-> "mapped", lineas |-> <<"mapped", "unmapped">>,
     cita |-> TRUE],
    [cliente |-> 1, assigned |-> "unmapped", lineas |-> <<>>, cita |-> TRUE] }

NoReciboStats ==
  [totalSales |-> 0, totalBatches |-> 0, successfulBatches |-> 0,
   failedBatches |-> 0, insertedRecibos |-> 0, insertedDetalles |-> 0,
   updatedCitas |-> 0, errors |-> <<>>, missingPatients |-> 0,
   missingDoctors |-> 0, missingTaxes |-> 0, failedDetails |-> 0,
   registeredPatients |-> 0]

\* the indices of the sales the source serves on page p
salePage(p) ==
  [x \in 1..(Min((p + 1) * PageLimit, Len(sales))
             - Min(p * PageLimit, Len(sales))) |-> p * PageLimit + x]

\* what a call of fetchAndRegisterPatient can meet: the patient request
\* succeeds or not; the gender reconciliation is skipped (no filters, no
\* sexo), the query before it rejects, or mapData returns an error, a
\* non-empty missing list or a mapping; the chunk of the patient load
\* succeeds or not; the query for the new id finds the row or not
RegistrationOutcomes ==
  {[patient |-> FALSE, gender |-> "skipped", inserted |-> FALSE, found |-> FALSE],
   [patient |-> TRUE, gender |-> "threw", inserted |-> FALSE, found |-> FALSE]}
  \cup {o \in [patient : {TRUE},
                gender : {"skipped", "error", "missing", "mapping"},
                inserted : BOOLEAN, found : BOOLEAN] : o.found => o.inserted}

\* fetchAndRegisterPatient: whether mapData("gender", ...) is called
genderReconciled(o) == o.patient /\ o.gender \in {"error", "missing", "mapping"}

\* fetchAndRegisterPatient: whether processBatches("pacientes", ...) is called;
\* an error result of mapData only leaves idSexo null
patientLoaded(o) == o.patient /\ o.gender # "threw"

\* fetchAndRegisterPatient: whether it returns an id (else null)
registered(o) == patientLoaded(o) /\ o.inserted /\ o.found

\* a record handed to processBatches by the flow, for any of its tables
ReciboRecord(oldId, idRecibo, item, medico, iva) ==
  [old_id |-> oldId, id_recibo |-> idRecibo, item |-> item,
   id_medico |-> medico, id_tipo_iva |-> iva]

\* transformedRecibos.push({...}) for the sale of index x
transformedRecibo(x) ==
  [old_id |-> SourceId(x),
   id_medico |-> IF sales[x].assigned = "mapped" THEN "id" ELSE "null",
   lineas |-> IF x \in detailErrors THEN <<>> ELSE sales[x].lineas,
   cita |-> sales[x].cita]

\* the rows an INSERT of recs adds to recibos: the store generates id_recibo
RECURSIVE insertRecibos(_, _)
insertRecibos(tbl, recs) ==
  IF recs = <<>> THEN tbl
  ELSE insertRecibos(
         Append(tbl, [id_recibo |-> Len(tbl) + 1, old_id |-> recs[1].old_id,
                      tenant |-> "own"]),
         Tail(recs))

\* SELECT id_recibo, old_id FROM recibos WHERE old_id IN (...) AND
\* id_clinica = ? AND id_super_clinica = ?
selectRecibos(tbl, oldIds) ==
  {<<tbl[x].old_id, tbl[x].id_recibo>> : x \in
     {y \in 1..Len(tbl) : tbl[y].old_id \in oldIds /\ tbl[y].tenant = "own"}}

\* allDetalles: the lines of the receipts whose id_recibo the re-query found
RECURSIVE allDetalles(_, _)
allDetalles(recs, mapping) ==
  IF recs = <<>> THEN <<>>
  ELSE (IF lookup(mapping, recs[1].old_id) = Null THEN <<>>
        ELSE [k \in 1..Len(recs[1].lineas) |->
                ReciboRecord(recs[1].old_id, lookup(mapping, recs[1].old_id), k,
                             "null",
                             IF recs[1].lineas[k] = "mapped" THEN "id" ELSE "null")])
       \o allDetalles(Tail(recs), mapping)

\* the receipts of the page that name an appointment and have an id_recibo
citasToUpdate(recs, mapping) ==
  {x \in 1..Len(recs) : recs[x].cita /\ lookup(mapping, recs[x].old_id) # Null}

-----------------------------------------------------------------------------
(* Receipts flow: the actions of the page callback *)

\* 4.1: Promise.all over the detail requests of the sales of the page
FetchDetails ==
  /\ fpc = "callback"
  /\ \E failed \in SUBSET Range(salePage(currentPage)) : detailErrors' = failed
  /\ saleIndex' = 1
  /\ transformedRecibos' = <<>>
  /\ reciboIdMapping' = {}
  /\ fpc' = "sales"
  /\ UNCHANGED <<step, reconciled, appointments, citas, preexisting,
                 currentPage, pageRequests, pagesFailed, transformedBatch,
                 primaryIdMapping, globalStats, loads, stages, httpResponse,
                 flow, sales, recibos, detalle_recibo, pacientes,
                 patientMapping>>
  /\ UNCHANGED <<loaderVars, mapperVars, readerVars, sanitizerVars, authVars, notifyVars, insertVars, encuestasVars, templatesVars, plantillasVars>>

\* 4.2: one iteration of for (const sale of salesWithDetails), with the call
\* of fetchAndRegisterPatient for a client patientMapping has no entry for
TransformSale ==
  /\ fpc = "sales"
  /\ saleIndex <= Len(salePage(currentPage))
  /\ saleIndex' = saleIndex + 1
  /\ LET x == salePage(currentPage)[saleIndex]
         doctors == IF sales[x].assigned = "unmapped" THEN 1 ELSE 0 IN
       IF sales[x].cliente \in patientMapping
       THEN /\ transformedRecibos' = Append(transformedRecibos, transformedRecibo(x))
            /\ globalStats' = [globalStats EXCEPT !.missingDoctors = @ + doctors]
            /\ UNCHANGED <<reconciled, loads, pacientes, patientMapping>>
       ELSE \E o \in RegistrationOutcomes :
            /\ reconciled' = IF genderReconciled(o)
                             THEN Append(reconciled, [entityType |-> "gender",
                                                      outcome |-> o.gender])
                             ELSE reconciled
            /\ loads' = IF patientLoaded(o)
                        THEN Append(loads,
                               [page |-> currentPage, kind |-> "pacientes",
                                failedBatches |-> IF o.inserted THEN 0 ELSE 1,
                                records |-> <<ReciboRecord(sales[x].cliente, Null,
                                                           0, "null", "null")>>])
                        ELSE loads
            /\ pacientes' = IF patientLoaded(o) /\ o.inserted
                            THEN Append(pacientes, sales[x].cliente)
                            ELSE pacientes
            /\ IF registered(o)
               THEN /\ patientMapping' = patientMapping \cup {sales[x].cliente}
                    /\ transformedRecibos' =
                         Append(transformedRecibos, transformedRecibo(x))
                    /\ globalStats' = [globalStats EXCEPT
                                         !.registeredPatients = @ + 1,
                                         !.missingDoctors = @ + doctors]
               ELSE /\ globalStats' = [globalStats EXCEPT !.missingPatients = @ + 1]
                    /\ UNCHANGED <<patientMapping, transformedRecibos>>
  /\ UNCHANGED <<fpc, step, appointments, citas, preexisting, currentPage,
                 pageRequests, pagesFailed, transformedBatch,
                 primaryIdMapping, stages, httpResponse, flow, sales,
                 recibos, detalle_recibo, detailErrors, reciboIdMapping>>
  /\ UNCHANGED <<loaderVars, mapperVars, readerVars, sanitizerVars, authVars, notifyVars, insertVars, encuestasVars, templatesVars, plantillasVars>>

\* 4.3: the loop is over; processBatches("recibos", cleanRecibos, 100), or the
\* callback returns when no sale is left
SubmitRecibos ==
  /\ fpc = "sales"
  /\ saleIndex > Len(salePage(currentPage))
  /\ IF Len(transformedRecibos) = 0
     THEN /\ fpc' = "pageDone"
          /\ UNCHANGED loads
     ELSE /\ loads' = Append(loads,
               [page |-> currentPage, kind |-> "recibos", failedBatches |-> 0,
                records |-> [x \in 1..Len(transformedRecibos) |->
                               ReciboRecord(transformedRecibos[x].old_id, Null, 0,
                                            transformedRecibos[x].id_medico,
                                            "null")]])
          /\ fpc' = "awaitRecibos"
  /\ UNCHANGED <<step, reconciled, appointments, citas, preexisting,
                 currentPage, pageRequests, pagesFailed, transformedBatch,
                 primaryIdMapping, globalStats, stages, httpResponse, flow,
                 sales, recibos, detalle_recibo, pacientes, patientMapping,
                 detailErrors, saleIndex, transformedRecibos,
                 reciboIdMapping>>
  /\ UNCHANGED <<loaderVars, mapperVars, readerVars, sanitizerVars, authVars, notifyVars, insertVars, encuestasVars, templatesVars, plantillasVars>>

\* reciboStats is returned and accumulated in globalStats
RecibosReturn ==
  /\ fpc = "awaitRecibos"
  /\ LET recs == loads[Len(loads)].records IN
       \E ok \in ChunkOutcomes(recs) :
         LET st == batchStats(recs, ok) IN
           /\ recibos' = insertRecibos(recibos, insertedOf(recs, ok, 1))
           /\ globalStats' =
                [globalStats EXCEPT
                   !.totalSales = @ + st.totalRecords,
                   !.totalBatches = @ + st.totalBatches,
                   !.successfulBatches = @ + st.successfulBatches,
                   !.failedBatches = @ + st.failedBatches,
                   !.insertedRecibos = @ + st.insertedRecords,
                   !.errors = @ \o st.errors]
           /\ loads' = [loads EXCEPT ![Len(loads)].failedBatches = st.failedBatches]
  /\ fpc' = "requeryRecibos"
  /\ UNCHANGED <<step, reconciled, appointments, citas, preexisting,
                 currentPage, pageRequests, pagesFailed, transformedBatch,
                 primaryIdMapping, stages, httpResponse, flow, sales,
                 detalle_recibo, pacientes, patientMapping, detailErrors,
                 saleIndex, transformedRecibos, reciboIdMapping>>
  /\ UNCHANGED <<loaderVars, mapperVars, readerVars, sanitizerVars, authVars, notifyVars, insertVars, encuestasVars, templatesVars, plantillasVars>>

\* 4.4: the re-query of the receipts by old_id; when the query rejects the
\* callback throws, the stream returns success: false, the route answers 500
RequeryRecibos ==
  /\ fpc = "requeryRecibos"
  /\ \/ /\ \E m \in idMappings(selectRecibos(recibos,
                       {transformedRecibos[x].old_id :
                          x \in 1..Len(transformedRecibos)})) :
             reciboIdMapping' = m
        /\ stages' = stages \cup {<<currentPage, "requeried">>}
        /\ fpc' = "detalles"
        /\ UNCHANGED httpResponse
     \/ /\ fpc' = "done"
        /\ httpResponse' = failure(500, streamError)
        /\ UNCHANGED <<reciboIdMapping, stages>>
  /\ UNCHANGED <<step, reconciled, appointments, citas, preexisting,
                 currentPage, pageRequests, pagesFailed, transformedBatch,
                 primaryIdMapping, globalStats, loads, flow, sales, recibos,
                 detalle_recibo, pacientes, patientMapping, detailErrors,
                 saleIndex, transformedRecibos>>
  /\ UNCHANGED <<loaderVars, mapperVars, readerVars, sanitizerVars, authVars, notifyVars, insertVars, encuestasVars, templatesVars, plantillasVars>>

\* 4.5: the lines of the receipts found, and processBatches("detalle_recibo",
\* allDetalles, 100) when there is any
SubmitDetalles ==
  /\ fpc = "detalles"
  /\ LET det == allDetalles(transformedRecibos, reciboIdMapping) IN
       /\ globalStats' = [globalStats EXCEPT !.missingTaxes = @ +
            Cardinality({k \in 1..Len(det) : det[k].id_tipo_iva = "null"})]
       /\ IF Len(det) > 0
          THEN /\ loads' = Append(loads,
                    [page |-> currentPage, kind |-> "detalle_recibo",
                     failedBatches |-> 0, records |-> det])
               /\ fpc' = "awaitDetalles"
          ELSE /\ fpc' = "updateCitas"
               /\ UNCHANGED loads
  /\ UNCHANGED <<step, reconciled, appointments, citas, preexisting,
                 currentPage, pageRequests, pagesFailed, transformedBatch,
                 primaryIdMapping, stages, httpResponse, flow, sales,
                 recibos, detalle_recibo, pacientes, patientMapping,
                 detailErrors, saleIndex, transformedRecibos,
                 reciboIdMapping>>
  /\ UNCHANGED <<loaderVars, mapperVars, readerVars, sanitizerVars, authVars, notifyVars, insertVars, encuestasVars, templatesVars, plantillasVars>>

\* detalleStats is returned: insertedDetalles += insertedRecords, and its
\* failedBatches are added to warnings.failedDetails
DetallesReturn ==
  /\ fpc = "awaitDetalles"
  /\ LET recs == loads[Len(loads)].records IN
       \E ok \in ChunkOutcomes(recs) :
         LET st == batchStats(recs, ok) IN
           /\ detalle_recibo' = detalle_recibo \o insertedOf(recs, ok, 1)
           /\ globalStats' =
                [globalStats EXCEPT
                   !.insertedDetalles = @ + st.insertedRecords,
                   !.failedDetails = @ + st.failedBatches]
           /\ loads' = [loads EXCEPT ![Len(loads)].failedBatches = st.failedBatches]
  /\ fpc' = "updateCitas"
  /\ UNCHANGED <<step, reconciled, appointments, citas, preexisting,
                 currentPage, pageRequests, pagesFailed, transformedBatch,
                 primaryIdMapping, stages, httpResponse, flow, sales,
                 recibos, pacientes, patientMapping, detailErrors, saleIndex,
                 transformedRecibos, reciboIdMapping>>
  /\ UNCHANGED <<loaderVars, mapperVars, readerVars, sanitizerVars, authVars, notifyVars, insertVars, encuestasVars, templatesVars, plantillasVars>>

\* 4.6: UPDATE citas SET id_recibo for the receipts that name an appointment;
\* an update may change a row, change none, or fail and be caught
UpdateCitas ==
  /\ fpc = "updateCitas"
  /\ \E n \in 0..Cardinality(citasToUpdate(transformedRecibos, reciboIdMapping)) :
       globalStats' = [globalStats EXCEPT !.updatedCitas = @ + n]
  /\ fpc' = "pageDone"
  /\ UNCHANGED <<step, reconciled, appointments, citas, preexisting,
                 currentPage, pageRequests, pagesFailed, transformedBatch,
                 primaryIdMapping, loads, stages, httpResponse, flow, sales,
                 recibos, detalle_recibo, pacientes, patientMapping,
                 detailErrors, saleIndex, transformedRecibos,
                 reciboIdMapping>>
  /\ UNCHANGED <<loaderVars, mapperVars, readerVars, sanitizerVars, authVars, notifyVars, insertVars, encuestasVars, templatesVars, plantillasVars>>

RecibosStep ==
  \/ LoadPatients
  \/ Reconcile
  \/ FirstPageFetch
  \/ FetchDetails
  \/ TransformSale
  \/ SubmitRecibos
  \/ RecibosReturn
  \/ RequeryRecibos
  \/ SubmitDetalles
  \/ DetallesReturn
  \/ UpdateCitas
  \/ NextPage
  \/ Respond

-----------------------------------------------------------------------------
(* utils/sanitizer (part_000) *)

MaxSanitized == 2

\* the field names a record may have of its own, and the enumerable names it
\* may inherit from its prototype chain
FieldNames == {"old_id", "comentarios"}
InheritedNames == {"inherited"}

\* the values of a field, by what the code tells apart: undefined, null, the
\* empty string, and any other value
JsValues == {"undefined", "null", "", "text"}

\* an object: its own properties, and the names it inherits
Objects ==
  [own : UNION {[S -> JsValues] : S \in SUBSET FieldNames},
   proto : SUBSET InheritedNames]

\* for (const key in obj): the own and the inherited enumerable names
forIn(obj) == DOMAIN obj.own \cup obj.proto

\* obj.hasOwnProperty(key)
hasOwnProperty(obj, key) == key \in DOMAIN obj.own

\* value || null, the idiom of the transforms
orNull(value) == IF value \in {"undefined", "null", ""} THEN "null" ELSE value

\* obj[key] === undefined ? null : obj[key]
undefinedToNull(value) == IF value = "undefined" THEN "null" ELSE value

\* convertUndefinedToNull(obj): result = {} and one assignment per own key
convertUndefinedToNull(obj) ==
  [own |-> [key \in {k \in forIn(obj) : hasOwnProperty(obj, k)} |->
              undefinedToNull(obj.own[key])],
   proto |-> {}]

\* findUndefinedFields(obj, context): the names it returns
findUndefinedFields(obj) ==
  {key \in forIn(obj) : hasOwnProperty(obj, key) /\ obj.own[key] = "undefined"}

\* sanitizeRecords(records, requiredFields): records.map(...); the required
\* fields only produce warnings on the console
sanitizeRecords(recs, required) ==
  [index \in 1..Len(recs) |-> convertUndefinedToNull(recs[index])]

-----------------------------------------------------------------------------
(* Sanitizer: actions *)

\* sanitizeRecords(records, requiredFields) is called and returns
Sanitize ==
  /\ spc = "input"
  /\ sanitized' = sanitizeRecords(inputRecords, requiredFields)
  /\ spc' = "once"
  /\ UNCHANGED <<inputRecords, requiredFields, resanitized>>
  /\ UNCHANGED <<loaderVars, mapperVars, readerVars, citasVars, recibosVars, authVars, notifyVars, insertVars, encuestasVars, templatesVars, plantillasVars>>

\* sanitizeRecords is called on the array it returned
SanitizeAgain ==
  /\ spc = "once"
  /\ resanitized' = sanitizeRecords(sanitized, requiredFields)
  /\ spc' = "twice"
  /\ UNCHANGED <<inputRecords, requiredFields, sanitized>>
  /\ UNCHANGED <<loaderVars, mapperVars, readerVars, citasVars, recibosVars, authVars, notifyVars, insertVars, encuestasVars, templatesVars, plantillasVars>>

SanitizerStep ==
  \/ Sanitize
  \/ SanitizeAgain

-----------------------------------------------------------------------------
(* middlewares/auth.middleware.js: validateBearerToken, validateClinicData *)

MaxHeaderParts == 2

\* the pieces an Authorization header is made of; "Bearer " has 7 characters
HeaderParts == {"Bearer ", "Bearer", "bearer ", "token"}

\* req.headers.authorization: undefined, or a string as its pieces
Headers ==
  {<<"undefined">>}
  \cup UNION {[1..n -> HeaderParts] : n \in 0..MaxHeaderParts}

\* a value of the JSON body by what the middleware asks of it: its typeof and
\* whether it is truthy
JsonValues ==
  {[typeof |-> "undefined", truthy |-> FALSE],
   [typeof |-> "object", truthy |-> FALSE],
   [typeof |-> "number", truthy |-> FALSE],
   [typeof |-> "number", truthy |-> TRUE],
   [typeof |-> "string", truthy |-> FALSE],
   [typeof |-> "string", truthy |-> TRUE],
   [typeof |-> "boolean", truthy |-> TRUE]}

\* req.body.clinic: absent, null, or an object with the two ids
Clinics ==
  [present : {FALSE}, isNull : BOOLEAN,
   id_clinica : {[typeof |-> "undefined", truthy |-> FALSE]},
   id_super_clinica : {[typeof |-> "undefined", truthy |-> FALSE]}]
  \cup [present : {TRUE}, isNull : {FALSE},
        id_clinica : JsonValues, id_super_clinica : JsonValues]

Requests == [authorization : Headers, clinic : Clinics]

NoRequest ==
  [authorization |-> <<"undefined">>,
   clinic |-> [present |-> FALSE, isNull |-> FALSE,
               id_clinica |-> [typeof |-> "undefined", truthy |-> FALSE],
               id_super_clinica |-> [typeof |-> "undefined", truthy |-> FALSE]]]

\* !authHeader: undefined or the empty string
noHeader(authHeader) == authHeader = <<"undefined">> \/ authHeader = <<>>

\* authHeader.startsWith('Bearer ')
startsWithBearer(authHeader) == Len(authHeader) > 0 /\ authHeader[1] = "Bearer "

\* authHeader.substring(7)
substring7(authHeader) == Tail(authHeader)

\* res.status(401).json({...}) of validateBearerToken, or none when it calls next()
bearerRejection(authHeader) ==
  IF noHeader(authHeader) THEN "MISSING_AUTHORIZATION"
  ELSE IF ~startsWithBearer(authHeader) THEN "INVALID_AUTHORIZATION_FORMAT"
  ELSE IF substring7(authHeader) = <<>> THEN "MISSING_TOKEN"
  ELSE "none"

\* any typeof passes
typeofAny(value) == TRUE

\* typeof value === 'number'
typeofNumber(value) == value.typeof = "number"

\* res.status(400).json({...}) of validateClinicData, or none when it calls next()
clinicRejection(clinic) ==
  IF ~clinic.present \/ clinic.isNull THEN "MISSING_CLINIC_DATA"
  ELSE IF ~clinic.id_clinica.truthy \/ ~clinic.id_super_clinica.truthy
       THEN "INVALID_CLINIC_DATA"
  ELSE IF ~typeofNumber(clinic.id_clinica) \/ ~typeofNumber(clinic.id_super_clinica)
       THEN "INVALID_CLINIC_DATA_TYPE"
  ELSE "none"

-----------------------------------------------------------------------------
(* Middlewares: actions *)

\* validateBearerToken(req, res, next)
ValidateBearerToken ==
  /\ apc = "bearer"
  /\ IF bearerRejection(request.authorization) # "none"
     THEN /\ authResponse' = failure(401, bearerRejection(request.authorization))
          /\ apc' = "responded"
          /\ UNCHANGED bearerToken
     ELSE /\ bearerToken' = substring7(request.authorization)
          /\ apc' = "clinic"
          /\ UNCHANGED authResponse
  /\ UNCHANGED <<request, handler>>
  /\ UNCHANGED <<loaderVars, mapperVars, readerVars, citasVars, recibosVars,
                 sanitizerVars, notifyVars, insertVars, encuestasVars, templatesVars, plantillasVars>>

\* validateClinicData(req, res, next)
ValidateClinicData ==
  /\ apc = "clinic"
  /\ IF clinicRejection(request.clinic) # "none"
     THEN /\ authResponse' = failure(400, clinicRejection(request.clinic))
          /\ apc' = "responded"
     ELSE /\ apc' = "handler"
          /\ UNCHANGED authResponse
  /\ UNCHANGED <<request, bearerToken, handler>>
  /\ UNCHANGED <<loaderVars, mapperVars, readerVars, citasVars, recibosVars,
                 sanitizerVars, notifyVars, insertVars, encuestasVars, templatesVars, plantillasVars>>

\* the async handler of the route starts: createApiClient with the token, then
\* its source requests, reconciliations and loads
RouteHandler ==
  /\ apc = "handler"
  /\ handler' = "running"
  /\ apc' = "running"
  /\ UNCHANGED <<request, authResponse, bearerToken>>
  /\ UNCHANGED <<loaderVars, mapperVars, readerVars, citasVars, recibosVars,
                 sanitizerVars, notifyVars, insertVars, encuestasVars, templatesVars, plantillasVars>>

AuthStep ==
  \/ ValidateBearerToken
  \/ ValidateClinicData
  \/ RouteHandler

-----------------------------------------------------------------------------
(* utils/batch-processor: the statement insertBatch builds from a chunk *)

MaxChunk == 2

NoStatement == [columns |-> {}, values |-> <<>>]

\* Object.keys(obj): the own enumerable names
ObjectKeys(obj) == DOMAIN obj.own

\* record[col]: undefined for a name the record has not
columnValue(obj, col) == IF col \in DOMAIN obj.own THEN obj.own[col] ELSE "undefined"

\* const columns = Object.keys(sanitizedRecords[0])
columnsOfFirst(recs) == ObjectKeys(recs[1])

\* lines 22-42: the records are sanitized, the columns are those of the first
\* record, and every record gives one row of values for these columns
buildStatement(recs) ==
  LET sanitizedRecords == sanitizeRecords(recs, {})
      columns == columnsOfFirst(sanitizedRecords) IN
    [columns |-> columns,
     values |-> [x \in 1..Len(sanitizedRecords) |->
                   [col \in columns |-> columnValue(sanitizedRecords[x], col)]]]

\* connection.execute(query, values) rejects a bind parameter that is
\* undefined before anything is sent to the store
bindError(stmt) ==
  \E x \in 1..Len(stmt.values) : \E col \in stmt.columns :
    stmt.values[x][col] = "undefined"

-----------------------------------------------------------------------------
(* insertBatch on one chunk: actions *)

\* insertBatch up to the call of transaction()
BuildStatement ==
  /\ qpc = "build"
  /\ statement' = buildStatement(chunkRecords)
  /\ qpc' = "execute"
  /\ UNCHANGED <<chunkRecords, insertResult, insertedRows>>
  /\ UNCHANGED <<loaderVars, mapperVars, readerVars, citasVars, recibosVars,
                 sanitizerVars, authVars, notifyVars, encuestasVars, templatesVars, plantillasVars>>

\* the transaction of the chunk and the return of insertBatch: the statement
\* is rejected for an undefined parameter, fails in the store, or inserts
\* its rows
ExecuteStatement ==
  /\ qpc = "execute"
  /\ IF bindError(statement)
     THEN /\ insertResult' = [success |-> FALSE, inserted |-> 0, batch |-> 1,
                              code |-> "undefined"]
          /\ UNCHANGED insertedRows
     ELSE \/ /\ insertedRows' = statement.values
             /\ insertResult' = [success |-> TRUE,
                                 inserted |-> Len(chunkRecords), batch |-> 1,
                                 code |-> "none"]
          \/ \E c \in ExecuteCodes :
               /\ insertResult' = [success |-> FALSE, inserted |-> 0,
                                   batch |-> 1, code |-> c]
               /\ UNCHANGED insertedRows
  /\ qpc' = "done"
  /\ UNCHANGED <<chunkRecords, statement>>
  /\ UNCHANGED <<loaderVars, mapperVars, readerVars, citasVars, recibosVars,
                 sanitizerVars, authVars, notifyVars, encuestasVars, templatesVars, plantillasVars>>

InsertStep ==
  \/ BuildStatement
  \/ ExecuteStatement

-----------------------------------------------------------------------------
(* POST /encuestas, step 5: the survey responses, in parallel batches *)

MaxSurveys == 4

\* const BATCH_SIZE = 15, scaled
BATCH_SIZE == 2

NoSurveyStats == [total |-> 0, processed |-> 0, inserted |-> 0, skipped |-> 0,
                  errors |-> <<>>]

\* the (id_anamnesis_hoja, id_paciente) pairs the surveys of the source map to
Pairs == {1, 2}

\* a completed survey: its id and, through templatesMapping and
\* patientMapping, the sheet and patient its detail names
Survey(id, pair) == [id |-> id, pair |-> pair]

NoHojas == [p \in Pairs |-> 0]

\* SELECT id FROM anamnesis_hojas_has_pacientes WHERE id_anamnesis_hoja = ?
\* AND id_paciente = ?, and the test existingResponse.length > 0
existingResponse(tbl, pair) == tbl[pair] > 0

\* INSERT INTO anamnesis_hojas_has_pacientes (...) VALUES (...)
insertHoja(tbl, pair) == [tbl EXCEPT ![pair] = @ + 1]

\* completedSurveys.slice(batchStart, batchEnd), as positions
surveyBatch(start) ==
  (start + 1)..Min(start + BATCH_SIZE, Len(completedSurveys))

skipCountsProcessed(st) ==
  [st EXCEPT !.skipped = @ + 1, !.processed = @ + 1]

\* return after stats.skipped++
skipSurvey(st) == [st EXCEPT !.skipped = @ + 1]

\* the catch of the callback
surveyError(st, survey) ==
  [st EXCEPT !.errors = Append(@, survey), !.processed = @ + 1]

\* the end of the callback's try block
surveyInserted(st) ==
  [st EXCEPT !.inserted = @ + 1, !.processed = @ + 1]

\* the loop header; Promise.all(surveyBatch.map(async ...)) runs every
\* callback of the batch up to its first await, the detail request
StartSurveyBatch ==
  /\ epc = "loop"
  /\ IF batchStart < Len(completedSurveys)
       THEN /\ unit' = [x \in DOMAIN unit |->
                          IF x \in surveyBatch(batchStart) THEN "detail"
                          ELSE unit[x]]
            /\ epc' = "await"
       ELSE /\ epc' = "done"
            /\ UNCHANGED unit
  /\ UNCHANGED <<completedSurveys, batchStart, surveyStats, hojas>>
  /\ UNCHANGED <<loaderVars, mapperVars, readerVars, citasVars, recibosVars,
                 sanitizerVars, authVars, notifyVars, insertVars, templatesVars, plantillasVars>>

\* the detail request of one survey returns: it failed, or the template or
\* the patient is not in the mappings (skipped); reading the detail throws;
\* or the callback goes on to the SELECT of the existing response
DetailReturns ==
  /\ \E x \in DOMAIN unit :
       /\ unit[x] = "detail"
       /\ \E outcome \in {"skip", "throw", "ok"} :
            CASE outcome = "skip" ->
                   /\ unit' = [unit EXCEPT ![x] = "done"]
                   /\ surveyStats' = skipSurvey(surveyStats)
              [] outcome = "throw" ->
                   /\ unit' = [unit EXCEPT ![x] = "done"]
                   /\ surveyStats' = surveyError(surveyStats, completedSurveys[x].id)
              [] outcome = "ok" ->
                   /\ unit' = [unit EXCEPT ![x] = "select"]
                   /\ UNCHANGED surveyStats
  /\ UNCHANGED <<completedSurveys, batchStart, epc, hojas>>
  /\ UNCHANGED <<loaderVars, mapperVars, readerVars, citasVars, recibosVars,
                 sanitizerVars, authVars, notifyVars, insertVars, templatesVars, plantillasVars>>

\* the SELECT returns: the response exists (skipped), the query rejects, or
\* the answers are transformed and the INSERT is sent
SelectReturns ==
  /\ \E x \in DOMAIN unit :
       /\ unit[x] = "select"
       /\ \E outcome \in {"throw",
                           IF existingResponse(hojas, completedSurveys[x].pair)
                           THEN "exists" ELSE "absent"} :
            CASE outcome = "exists" ->
                   /\ unit' = [unit EXCEPT ![x] = "done"]
                   /\ surveyStats' = skipSurvey(surveyStats)
              [] outcome = "throw" ->
                   /\ unit' = [unit EXCEPT ![x] = "done"]
                   /\ surveyStats' = surveyError(surveyStats, completedSurveys[x].id)
              [] outcome = "absent" ->
                   /\ unit' = [unit EXCEPT ![x] = "insert"]
                   /\ UNCHANGED surveyStats
  /\ UNCHANGED <<completedSurveys, batchStart, epc, hojas>>
  /\ UNCHANGED <<loaderVars, mapperVars, readerVars, citasVars, recibosVars,
                 sanitizerVars, authVars, notifyVars, insertVars, templatesVars, plantillasVars>>

\* the INSERT returns or rejects
InsertReturns ==
  /\ \E x \in DOMAIN unit :
       /\ unit[x] = "insert"
       /\ unit' = [unit EXCEPT ![x] = "done"]
       /\ \E ok \in BOOLEAN :
            IF ok
            THEN /\ hojas' = insertHoja(hojas, completedSurveys[x].pair)
                 /\ surveyStats' = surveyInserted(surveyStats)
            ELSE /\ UNCHANGED hojas
                 /\ surveyStats' = surveyError(surveyStats, completedSurveys[x].id)
  /\ UNCHANGED <<completedSurveys, batchStart, epc>>
  /\ UNCHANGED <<loaderVars, mapperVars, readerVars, citasVars, recibosVars,
                 sanitizerVars, authVars, notifyVars, insertVars, templatesVars, plantillasVars>>

\* Promise.all resolves when every callback of the batch has returned; the
\* loop goes on with batchStart += BATCH_SIZE
SurveyBatchDone ==
  /\ epc = "await"
  /\ \A x \in surveyBatch(batchStart) : unit[x] = "done"
  /\ batchStart' = batchStart + BATCH_SIZE
  /\ epc' = "loop"
  /\ UNCHANGED <<completedSurveys, unit, surveyStats, hojas>>
  /\ UNCHANGED <<loaderVars, mapperVars, readerVars, citasVars, recibosVars,
                 sanitizerVars, authVars, notifyVars, insertVars, templatesVars, plantillasVars>>

EncuestasStep ==
  \/ StartSurveyBatch
  \/ DetailReturns
  \/ SelectReturns
  \/ InsertReturns
  \/ SurveyBatchDone

-----------------------------------------------------------------------------
(* POST /encuestas: fetchAllSurveyTemplates *)

\* the largest survey id the source may answer
MaxTemplateId == 8

MAX_CONSECUTIVE_ERRORS == 5

\* consecutiveErrors after a template was found
\* (faulty variant: the count is not reset)
errorsKept(n) == n
errorsAfterFound(n) == 0

\* one iteration of the while loop: the probe of surveyId and what follows
Probe ==
  /\ tpc = "loop"
  /\ consecutiveErrors < MAX_CONSECUTIVE_ERRORS
  /\ IF surveyId \in responding
       THEN /\ consecutiveErrors' = errorsAfterFound(consecutiveErrors)
            /\ templates' = Append(templates, surveyId)
       ELSE /\ consecutiveErrors' = consecutiveErrors + 1
            /\ UNCHANGED templates
  /\ surveyId' = surveyId + 1
  /\ UNCHANGED <<responding, tpc>>
  /\ UNCHANGED <<loaderVars, mapperVars, readerVars, citasVars, recibosVars,
                 sanitizerVars, authVars, notifyVars, insertVars, encuestasVars, plantillasVars>>

\* the loop condition fails: return templates
ProbeReturn ==
  /\ tpc = "loop"
  /\ consecutiveErrors >= MAX_CONSECUTIVE_ERRORS
  /\ tpc' = "done"
  /\ UNCHANGED <<responding, surveyId, consecutiveErrors, templates>>
  /\ UNCHANGED <<loaderVars, mapperVars, readerVars, citasVars, recibosVars,
                 sanitizerVars, authVars, notifyVars, insertVars, encuestasVars, plantillasVars>>

TemplatesStep ==
  \/ Probe
  \/ ProbeReturn

-----------------------------------------------------------------------------
(* POST /encuestas: migrateSurveyTemplate *)

MaxQuestions == 3
MaxMigrations == 3

\* the tenants (id_clinica, id_super_clinica) that call the route
Tenants == {"own", "other"}

\* the values of id_tipo_pregunta the transformation gives
Tipos == {1, 2}

\* the id the source gives its k-th question
QuestionIdBase == 100
QuestionId(k) == QuestionIdBase + k

NoTemplate == [id |-> 0, preguntas |-> <<>>]

\* a template of the source with n questions
Template(n) == [id |-> 1, preguntas |-> [k \in 1..n |-> QuestionId(k)]]

\* the categories the transformation returns for a template of n questions:
\* the questions in the order of the source, cut into categories after the
\* positions in cuts, the k-th question with the type tipos[k]
CategoriesOf(n, cuts, tipos) ==
  LET starts == {1} \cup {c + 1 : c \in cuts}
      from(j) == CHOOSE s \in starts : Cardinality({t \in starts : t < s}) = j - 1
      upto(j) == IF j < Cardinality(starts) THEN from(j + 1) - 1 ELSE n IN
    [j \in 1..Cardinality(starts) |->
       [k \in 1..(upto(j) - from(j) + 1) |->
          [koibox_question_id |-> QuestionId(from(j) + k - 1),
           id_tipo_pregunta |-> tipos[from(j) + k - 1]]]]

AiDataFor(n) ==
  {CategoriesOf(n, cuts, tipos) :
     cuts \in SUBSET (1..(n - 1)), tipos \in [1..n -> Tipos]}

\* SELECT id FROM anamnesis_hojas WHERE old_id = ?
existingSurveys(tbl, oldId) ==
  SelectSeq(tbl, LAMBDA r : r.old_id = oldId)

\* SELECT id, nombre FROM anamnesis_categorias WHERE id_anamnesis_hoja = ?
categoriasOf(hoja) ==
  SelectSeq(anamnesis_categorias, LAMBDA r : r.id_anamnesis_hoja = hoja)

\* SELECT ap.id, ap.id_tipo_pregunta FROM anamnesis_preguntas ap INNER JOIN
\* anamnesis_categorias_has_preguntas ... WHERE achp.id_anamnesis_categoria = ?
preguntasOf(categoria) ==
  SelectSeq(anamnesis_preguntas,
            LAMBDA r : r.id_anamnesis_categoria = categoria)

\* preguntasMapping[key] = value
assign(mapping, key, value) ==
  {e \in mapping : e[1] # key} \cup {<<key, value>>}

\* preguntas.forEach((pregunta, index) => ...): the question at an index of a
\* category is mapped from the question at that index of the template
RECURSIVE forEachPregunta(_, _, _, _)
forEachPregunta(mapping, rows, categoria, index) ==
  IF index > Len(rows) THEN mapping
  ELSE forEachPregunta(
         IF index <= Len(surveyTemplate.preguntas)
         THEN assign(mapping, surveyTemplate.preguntas[index],
                     [id_pregunta |-> rows[index].id, id_categoria |-> categoria,
                      tipo |-> rows[index].id_tipo_pregunta])
         ELSE mapping,
         rows, categoria, index + 1)

\* for (const categoria of categorias): the mapping loaded for an existing
\* template
RECURSIVE loadMapping(_, _)
loadMapping(mapping, categorias) ==
  IF categorias = <<>> THEN mapping
  ELSE loadMapping(forEachPregunta(mapping, preguntasOf(categorias[1].id),
                                   categorias[1].id, 1),
                   Tail(categorias))

\* the questions of the transformation in the order they are inserted, each
\* with the position of its category
RECURSIVE flatten(_, _)
flatten(categorias, j) ==
  IF j > Len(categorias) THEN <<>>
  ELSE [k \in 1..Len(categorias[j]) |-> [categoria |-> j, pregunta |-> categorias[j][k]]]
       \o flatten(categorias, j + 1)

\* the rows a new template gives: insertId is the position of the row
newCategorias(hoja) ==
  [j \in 1..Len(aiData) |->
     [id |-> Len(anamnesis_categorias) + j, id_anamnesis_hoja |-> hoja]]

newPreguntas ==
  LET flat == flatten(aiData, 1) IN
    [p \in 1..Len(flat) |->
       [id |-> Len(anamnesis_preguntas) + p,
        id_anamnesis_categoria |-> Len(anamnesis_categorias) + flat[p].categoria,
        id_tipo_pregunta |-> flat[p].pregunta.id_tipo_pregunta,
        koibox_question_id |-> flat[p].pregunta.koibox_question_id]]

\* preguntasMapping[pregunta.koibox_question_id] = {...} for every question
createdMapping(rows) ==
  {<<rows[p].koibox_question_id,
     [id_pregunta |-> rows[p].id, id_categoria |-> rows[p].id_anamnesis_categoria,
      tipo |-> rows[p].id_tipo_pregunta]>> : p \in 1..Len(rows)}

\* the stored row of a question: koibox_question_id is no column
storedPregunta(r) ==
  [id |-> r.id, id_anamnesis_categoria |-> r.id_anamnesis_categoria,
   id_tipo_pregunta |-> r.id_tipo_pregunta]

\* migrateSurveyTemplate for a template that is found: the structure is loaded
MigrateExisting ==
  /\ Len(migrations) < MaxMigrations
  /\ \E clinic \in Tenants :
       LET found == existingSurveys(anamnesis_hojas, surveyTemplate.id) IN
         /\ Len(found) > 0
         /\ migrations' = Append(migrations,
              [tenant |-> clinic, skipped |-> TRUE, threw |-> FALSE,
               id_anamnesis_hoja |-> found[1].id,
               preguntasMapping |-> loadMapping({}, categoriasOf(found[1].id))])
  /\ UNCHANGED <<surveyTemplate, aiData, anamnesis_hojas, anamnesis_categorias,
                 anamnesis_preguntas>>
  /\ UNCHANGED <<loaderVars, mapperVars, readerVars, citasVars, recibosVars,
                 sanitizerVars, authVars, notifyVars, insertVars, encuestasVars,
                 templatesVars>>

\* migrateSurveyTemplate for a template that is not found: the transformation
\* fails and the call throws (the transaction is rolled back), or the rows
\* are inserted
MigrateNew ==
  /\ Len(migrations) < MaxMigrations
  /\ \E clinic \in Tenants, aiOk \in BOOLEAN :
       /\ Len(existingSurveys(anamnesis_hojas, surveyTemplate.id)) = 0
       /\ IF aiOk
          THEN LET hoja == Len(anamnesis_hojas) + 1
                   rows == newPreguntas IN
                 /\ anamnesis_hojas' = Append(anamnesis_hojas,
                      [id |-> hoja, old_id |-> surveyTemplate.id, tenant |-> clinic])
                 /\ anamnesis_categorias' = anamnesis_categorias \o newCategorias(hoja)
                 /\ anamnesis_preguntas' = anamnesis_preguntas
                      \o [p \in 1..Len(rows) |-> storedPregunta(rows[p])]
                 /\ migrations' = Append(migrations,
                      [tenant |-> clinic, skipped |-> FALSE, threw |-> FALSE,
                       id_anamnesis_hoja |-> hoja,
                       preguntasMapping |-> createdMapping(rows)])
          ELSE /\ migrations' = Append(migrations,
                      [tenant |-> clinic, skipped |-> FALSE, threw |-> TRUE,
                       id_anamnesis_hoja |-> 0, preguntasMapping |-> {}])
               /\ UNCHANGED <<anamnesis_hojas, anamnesis_categorias,
                              anamnesis_preguntas>>
  /\ UNCHANGED <<surveyTemplate, aiData>>
  /\ UNCHANGED <<loaderVars, mapperVars, readerVars, citasVars, recibosVars,
                 sanitizerVars, authVars, notifyVars, insertVars, encuestasVars,
                 templatesVars>>

PlantillasStep ==
  \/ MigrateExisting
  \/ MigrateNew

-----------------------------------------------------------------------------
(* Specifications: one per subsystem, the others at rest *)

\* processBatches is called with N records, a chunk size and maybe a callback
InitLoader ==
  /\ \E n \in 0..MaxRecords : allRecords = [r \in 1..n |-> r]
  /\ batchSize \in 1..MaxBatchSize
  /\ hasCallback \in BOOLEAN
  /\ lpc = "loop"
  /\ i = 0
  /\ stats = [totalRecords |-> Len(allRecords),
              totalBatches |-> Ceil(Len(allRecords), batchSize),
              successfulBatches |-> 0, failedBatches |-> 0,
              insertedRecords |-> 0, errors |-> <<>>]
  /\ table = {}
  /\ txn = {}
  /\ acquired = 0
  /\ released = 0
  /\ call = NoCall
  /\ result = NoResult
  /\ log = <<>>
  /\ thrownBy = "none"
  /\ mapperCache = {}
  /\ mcall = [c \in Callers |-> Idle]
  /\ oracleCalls = 0
  /\ started = 0
  /\ last = Nothing
  /\ prev = Nothing
  /\ mode = "getAllPaginated"
  /\ limit = 1
  /\ total = 0
  /\ rpc = "start"
  /\ page = 0
  /\ totalPages = 0
  /\ requests = <<>>
  /\ inFlight = 0
  /\ failedPages = {}
  /\ callbacks = <<>>
  /\ active = {}
  /\ held = {}
  /\ allResults = <<>>
  /\ rret = NotReturned
  /\ caught = "none"
  /\ lastCount = 0
  /\ fpc = "prepare"
  /\ step = 1
  /\ reconciled = <<>>
  /\ appointments = <<>>
  /\ citas = <<>>
  /\ preexisting = 0
  /\ currentPage = 0
  /\ pageRequests = <<>>
  /\ pagesFailed = {}
  /\ transformedBatch = <<>>
  /\ primaryIdMapping = {}
  /\ globalStats = NoStats
  /\ loads = <<>>
  /\ stages = {}
  /\ httpResponse = NoResponseSent
  /\ flow = "citas"
  /\ sales = <<>>
  /\ recibos = <<>>
  /\ detalle_recibo = <<>>
  /\ pacientes = <<>>
  /\ patientMapping = {}
  /\ detailErrors = {}
  /\ saleIndex = 1
  /\ transformedRecibos = <<>>
  /\ reciboIdMapping = {}
  /\ inputRecords = <<>>
  /\ requiredFields = {}
  /\ sanitized = <<>>
  /\ resanitized = <<>>
  /\ spc = "input"
  /\ request = NoRequest
  /\ apc = "bearer"
  /\ authResponse = NoResponseSent
  /\ bearerToken = <<>>
  /\ handler = "idle"
  /\ notified = <<>>
  /\ chunkRecords = <<>>
  /\ statement = NoStatement
  /\ qpc = "build"
  /\ insertResult = NoResult
  /\ insertedRows = <<>>
  /\ completedSurveys = <<>>
  /\ batchStart = 0
  /\ unit = <<>>
  /\ epc = "loop"
  /\ surveyStats = NoSurveyStats
  /\ hojas = NoHojas
  /\ responding = {}
  /\ surveyId = 1
  /\ consecutiveErrors = 0
  /\ templates = <<>>
  /\ tpc = "loop"
  /\ surveyTemplate = NoTemplate
  /\ aiData = <<>>
  /\ anamnesis_hojas = <<>>
  /\ anamnesis_categorias = <<>>
  /\ anamnesis_preguntas = <<>>
  /\ migrations = <<>>

SpecLoader == InitLoader /\ [][LoaderStep]_vars

\* the module has just been loaded: the cache is empty, no call runs
InitMapper ==
  /\ allRecords = <<>>
  /\ batchSize = 1
  /\ hasCallback = FALSE
  /\ lpc = "loop"
  /\ i = 0
  /\ stats = [totalRecords |-> Len(allRecords),
              totalBatches |-> Ceil(Len(allRecords), batchSize),
              successfulBatches |-> 0, failedBatches |-> 0,
              insertedRecords |-> 0, errors |-> <<>>]
  /\ table = {}
  /\ txn = {}
  /\ acquired = 0
  /\ released = 0
  /\ call = NoCall
  /\ result = NoResult
  /\ log = <<>>
  /\ thrownBy = "none"
  /\ mapperCache = {}
  /\ mcall = [c \in Callers |-> Idle]
  /\ oracleCalls = 0
  /\ started = 0
  /\ last = Nothing
  /\ prev = Nothing
  /\ mode = "getAllPaginated"
  /\ limit = 1
  /\ total = 0
  /\ rpc = "start"
  /\ page = 0
  /\ totalPages = 0
  /\ requests = <<>>
  /\ inFlight = 0
  /\ failedPages = {}
  /\ callbacks = <<>>
  /\ active = {}
  /\ held = {}
  /\ allResults = <<>>
  /\ rret = NotReturned
  /\ caught = "none"
  /\ lastCount = 0
  /\ fpc = "prepare"
  /\ step = 1
  /\ reconciled = <<>>
  /\ appointments = <<>>
  /\ citas = <<>>
  /\ preexisting = 0
  /\ currentPage = 0
  /\ pageRequests = <<>>
  /\ pagesFailed = {}
  /\ transformedBatch = <<>>
  /\ primaryIdMapping = {}
  /\ globalStats = NoStats
  /\ loads = <<>>
  /\ stages = {}
  /\ httpResponse = NoResponseSent
  /\ flow = "citas"
  /\ sales = <<>>
  /\ recibos = <<>>
  /\ detalle_recibo = <<>>
  /\ pacientes = <<>>
  /\ patientMapping = {}
  /\ detailErrors = {}
  /\ saleIndex = 1
  /\ transformedRecibos = <<>>
  /\ reciboIdMapping = {}
  /\ inputRecords = <<>>
  /\ requiredFields = {}
  /\ sanitized = <<>>
  /\ resanitized = <<>>
  /\ spc = "input"
  /\ request = NoRequest
  /\ apc = "bearer"
  /\ authResponse = NoResponseSent
  /\ bearerToken = <<>>
  /\ handler = "idle"
  /\ notified = <<>>
  /\ chunkRecords = <<>>
  /\ statement = NoStatement
  /\ qpc = "build"
  /\ insertResult = NoResult
  /\ insertedRows = <<>>
  /\ completedSurveys = <<>>
  /\ batchStart = 0
  /\ unit = <<>>
  /\ epc = "loop"
  /\ surveyStats = NoSurveyStats
  /\ hojas = NoHojas
  /\ responding = {}
  /\ surveyId = 1
  /\ consecutiveErrors = 0
  /\ templates = <<>>
  /\ tpc = "loop"
  /\ surveyTemplate = NoTemplate
  /\ aiData = <<>>
  /\ anamnesis_hojas = <<>>
  /\ anamnesis_categorias = <<>>
  /\ anamnesis_preguntas = <<>>
  /\ migrations = <<>>

SpecMapper == InitMapper /\ [][MapperStep]_vars

\* the reconciliation engine under two requests served at once
SpecRequests == InitMapper /\ [][RequestsStep]_vars

\* the reconciliation engine called with the same arguments under both policies
SpecPolicies == InitMapper /\ [][PoliciesStep]_vars

\* one of the two operations is called on a source of `total` records
InitReader ==
  /\ allRecords = <<>>
  /\ batchSize = 1
  /\ hasCallback = FALSE
  /\ lpc = "loop"
  /\ i = 0
  /\ stats = [totalRecords |-> Len(allRecords),
              totalBatches |-> Ceil(Len(allRecords), batchSize),
              successfulBatches |-> 0, failedBatches |-> 0,
              insertedRecords |-> 0, errors |-> <<>>]
  /\ table = {}
  /\ txn = {}
  /\ acquired = 0
  /\ released = 0
  /\ call = NoCall
  /\ result = NoResult
  /\ log = <<>>
  /\ thrownBy = "none"
  /\ mapperCache = {}
  /\ mcall = [c \in Callers |-> Idle]
  /\ oracleCalls = 0
  /\ started = 0
  /\ last = Nothing
  /\ prev = Nothing
  /\ mode \in Modes
  /\ limit \in 1..MaxLimit
  /\ total \in 0..MaxTotal
  /\ rpc = "start"
  /\ page = 0
  /\ totalPages = 0
  /\ requests = <<>>
  /\ inFlight = 0
  /\ failedPages = {}
  /\ callbacks = <<>>
  /\ active = {}
  /\ held = {}
  /\ allResults = <<>>
  /\ rret = NotReturned
  /\ caught = "none"
  /\ lastCount = 0
  /\ fpc = "prepare"
  /\ step = 1
  /\ reconciled = <<>>
  /\ appointments = <<>>
  /\ citas = <<>>
  /\ preexisting = 0
  /\ currentPage = 0
  /\ pageRequests = <<>>
  /\ pagesFailed = {}
  /\ transformedBatch = <<>>
  /\ primaryIdMapping = {}
  /\ globalStats = NoStats
  /\ loads = <<>>
  /\ stages = {}
  /\ httpResponse = NoResponseSent
  /\ flow = "citas"
  /\ sales = <<>>
  /\ recibos = <<>>
  /\ detalle_recibo = <<>>
  /\ pacientes = <<>>
  /\ patientMapping = {}
  /\ detailErrors = {}
  /\ saleIndex = 1
  /\ transformedRecibos = <<>>
  /\ reciboIdMapping = {}
  /\ inputRecords = <<>>
  /\ requiredFields = {}
  /\ sanitized = <<>>
  /\ resanitized = <<>>
  /\ spc = "input"
  /\ request = NoRequest
  /\ apc = "bearer"
  /\ authResponse = NoResponseSent
  /\ bearerToken = <<>>
  /\ handler = "idle"
  /\ notified = <<>>
  /\ chunkRecords = <<>>
  /\ statement = NoStatement
  /\ qpc = "build"
  /\ insertResult = NoResult
  /\ insertedRows = <<>>
  /\ completedSurveys = <<>>
  /\ batchStart = 0
  /\ unit = <<>>
  /\ epc = "loop"
  /\ surveyStats = NoSurveyStats
  /\ hojas = NoHojas
  /\ responding = {}
  /\ surveyId = 1
  /\ consecutiveErrors = 0
  /\ templates = <<>>
  /\ tpc = "loop"
  /\ surveyTemplate = NoTemplate
  /\ aiData = <<>>
  /\ anamnesis_hojas = <<>>
  /\ anamnesis_categorias = <<>>
  /\ anamnesis_preguntas = <<>>
  /\ migrations = <<>>

SpecReader == InitReader /\ [][ReaderStep]_vars

\* POST /migrations/koibox/citas has passed the middlewares; the source holds
\* some appointments and the target may hold a row of an earlier run
InitCitas ==
  /\ allRecords = <<>>
  /\ batchSize = 1
  /\ hasCallback = FALSE
  /\ lpc = "loop"
  /\ i = 0
  /\ stats = [totalRecords |-> Len(allRecords),
              totalBatches |-> Ceil(Len(allRecords), batchSize),
              successfulBatches |-> 0, failedBatches |-> 0,
              insertedRecords |-> 0, errors |-> <<>>]
  /\ table = {}
  /\ txn = {}
  /\ acquired = 0
  /\ released = 0
  /\ call = NoCall
  /\ result = NoResult
  /\ log = <<>>
  /\ thrownBy = "none"
  /\ mapperCache = {}
  /\ mcall = [c \in Callers |-> Idle]
  /\ oracleCalls = 0
  /\ started = 0
  /\ last = Nothing
  /\ prev = Nothing
  /\ mode = "getAllPaginated"
  /\ limit = 1
  /\ total = 0
  /\ rpc = "start"
  /\ page = 0
  /\ totalPages = 0
  /\ requests = <<>>
  /\ inFlight = 0
  /\ failedPages = {}
  /\ callbacks = <<>>
  /\ active = {}
  /\ held = {}
  /\ allResults = <<>>
  /\ rret = NotReturned
  /\ caught = "none"
  /\ lastCount = 0
  /\ fpc = "prepare"
  /\ step = 1
  /\ reconciled = <<>>
  /\ appointments \in UNION {[1..n -> AppointmentKinds] : n \in 0..MaxAppointments}
  /\ citas \in TablesBefore
  /\ preexisting = Len(citas)
  /\ currentPage = 0
  /\ pageRequests = <<>>
  /\ pagesFailed = {}
  /\ transformedBatch = <<>>
  /\ primaryIdMapping = {}
  /\ globalStats = NoStats
  /\ loads = <<>>
  /\ stages = {}
  /\ httpResponse = NoResponseSent
  /\ flow = "citas"
  /\ sales = <<>>
  /\ recibos = <<>>
  /\ detalle_recibo = <<>>
  /\ pacientes = <<>>
  /\ patientMapping = {}
  /\ detailErrors = {}
  /\ saleIndex = 1
  /\ transformedRecibos = <<>>
  /\ reciboIdMapping = {}
  /\ inputRecords = <<>>
  /\ requiredFields = {}
  /\ sanitized = <<>>
  /\ resanitized = <<>>
  /\ spc = "input"
  /\ request = NoRequest
  /\ apc = "bearer"
  /\ authResponse = NoResponseSent
  /\ bearerToken = <<>>
  /\ handler = "idle"
  /\ notified = <<>>
  /\ chunkRecords = <<>>
  /\ statement = NoStatement
  /\ qpc = "build"
  /\ insertResult = NoResult
  /\ insertedRows = <<>>
  /\ completedSurveys = <<>>
  /\ batchStart = 0
  /\ unit = <<>>
  /\ epc = "loop"
  /\ surveyStats = NoSurveyStats
  /\ hojas = NoHojas
  /\ responding = {}
  /\ surveyId = 1
  /\ consecutiveErrors = 0
  /\ templates = <<>>
  /\ tpc = "loop"
  /\ surveyTemplate = NoTemplate
  /\ aiData = <<>>
  /\ anamnesis_hojas = <<>>
  /\ anamnesis_categorias = <<>>
  /\ anamnesis_preguntas = <<>>
  /\ migrations = <<>>

SpecCitas == InitCitas /\ [][CitasStep]_vars

\* POST /migrations/koibox/recibos has passed the middlewares; the source
\* holds some sales, the target no receipt
InitRecibos ==
  /\ allRecords = <<>>
  /\ batchSize = 1
  /\ hasCallback = FALSE
  /\ lpc = "loop"
  /\ i = 0
  /\ stats = [totalRecords |-> Len(allRecords),
              totalBatches |-> Ceil(Len(allRecords), batchSize),
              successfulBatches |-> 0, failedBatches |-> 0,
              insertedRecords |-> 0, errors |-> <<>>]
  /\ table = {}
  /\ txn = {}
  /\ acquired = 0
  /\ released = 0
  /\ call = NoCall
  /\ result = NoResult
  /\ log = <<>>
  /\ thrownBy = "none"
  /\ mapperCache = {}
  /\ mcall = [c \in Callers |-> Idle]
  /\ oracleCalls = 0
  /\ started = 0
  /\ last = Nothing
  /\ prev = Nothing
  /\ mode = "getAllPaginated"
  /\ limit = 1
  /\ total = 0
  /\ rpc = "start"
  /\ page = 0
  /\ totalPages = 0
  /\ requests = <<>>
  /\ inFlight = 0
  /\ failedPages = {}
  /\ callbacks = <<>>
  /\ active = {}
  /\ held = {}
  /\ allResults = <<>>
  /\ rret = NotReturned
  /\ caught = "none"
  /\ lastCount = 0
  /\ fpc = "prepare"
  /\ step = 1
  /\ reconciled = <<>>
  /\ appointments = <<>>
  /\ citas = <<>>
  /\ preexisting = 0
  /\ currentPage = 0
  /\ pageRequests = <<>>
  /\ pagesFailed = {}
  /\ transformedBatch = <<>>
  /\ primaryIdMapping = {}
  /\ globalStats = NoReciboStats
  /\ loads = <<>>
  /\ stages = {}
  /\ httpResponse = NoResponseSent
  /\ flow = "recibos"
  /\ sales \in UNION {[1..n -> SaleKinds] : n \in 0..MaxSales}
  /\ recibos = <<>>
  /\ detalle_recibo = <<>>
  /\ pacientes = <<>>
  /\ patientMapping = KnownClients
  /\ detailErrors = {}
  /\ saleIndex = 1
  /\ transformedRecibos = <<>>
  /\ reciboIdMapping = {}
  /\ inputRecords = <<>>
  /\ requiredFields = {}
  /\ sanitized = <<>>
  /\ resanitized = <<>>
  /\ spc = "input"
  /\ request = NoRequest
  /\ apc = "bearer"
  /\ authResponse = NoResponseSent
  /\ bearerToken = <<>>
  /\ handler = "idle"
  /\ notified = <<>>
  /\ chunkRecords = <<>>
  /\ statement = NoStatement
  /\ qpc = "build"
  /\ insertResult = NoResult
  /\ insertedRows = <<>>
  /\ completedSurveys = <<>>
  /\ batchStart = 0
  /\ unit = <<>>
  /\ epc = "loop"
  /\ surveyStats = NoSurveyStats
  /\ hojas = NoHojas
  /\ responding = {}
  /\ surveyId = 1
  /\ consecutiveErrors = 0
  /\ templates = <<>>
  /\ tpc = "loop"
  /\ surveyTemplate = NoTemplate
  /\ aiData = <<>>
  /\ anamnesis_hojas = <<>>
  /\ anamnesis_categorias = <<>>
  /\ anamnesis_preguntas = <<>>
  /\ migrations = <<>>

SpecRecibos == InitRecibos /\ [][RecibosStep]_vars

\* an array of records is about to be handed to sanitizeRecords
InitSanitizer ==
  /\ allRecords = <<>>
  /\ batchSize = 1
  /\ hasCallback = FALSE
  /\ lpc = "loop"
  /\ i = 0
  /\ stats = [totalRecords |-> Len(allRecords),
              totalBatches |-> Ceil(Len(allRecords), batchSize),
              successfulBatches |-> 0, failedBatches |-> 0,
              insertedRecords |-> 0, errors |-> <<>>]
  /\ table = {}
  /\ txn = {}
  /\ acquired = 0
  /\ released = 0
  /\ call = NoCall
  /\ result = NoResult
  /\ log = <<>>
  /\ thrownBy = "none"
  /\ mapperCache = {}
  /\ mcall = [c \in Callers |-> Idle]
  /\ oracleCalls = 0
  /\ started = 0
  /\ last = Nothing
  /\ prev = Nothing
  /\ mode = "getAllPaginated"
  /\ limit = 1
  /\ total = 0
  /\ rpc = "start"
  /\ page = 0
  /\ totalPages = 0
  /\ requests = <<>>
  /\ inFlight = 0
  /\ failedPages = {}
  /\ callbacks = <<>>
  /\ active = {}
  /\ held = {}
  /\ allResults = <<>>
  /\ rret = NotReturned
  /\ caught = "none"
  /\ lastCount = 0
  /\ fpc = "prepare"
  /\ step = 1
  /\ reconciled = <<>>
  /\ appointments = <<>>
  /\ citas = <<>>
  /\ preexisting = 0
  /\ currentPage = 0
  /\ pageRequests = <<>>
  /\ pagesFailed = {}
  /\ transformedBatch = <<>>
  /\ primaryIdMapping = {}
  /\ globalStats = NoStats
  /\ loads = <<>>
  /\ stages = {}
  /\ httpResponse = NoResponseSent
  /\ flow = "citas"
  /\ sales = <<>>
  /\ recibos = <<>>
  /\ detalle_recibo = <<>>
  /\ pacientes = <<>>
  /\ patientMapping = {}
  /\ detailErrors = {}
  /\ saleIndex = 1
  /\ transformedRecibos = <<>>
  /\ reciboIdMapping = {}
  /\ inputRecords \in UNION {[1..n -> Objects] : n \in 0..MaxSanitized}
  /\ requiredFields \in {{}, FieldNames}
  /\ sanitized = <<>>
  /\ resanitized = <<>>
  /\ spc = "input"
  /\ request = NoRequest
  /\ apc = "bearer"
  /\ authResponse = NoResponseSent
  /\ bearerToken = <<>>
  /\ handler = "idle"
  /\ notified = <<>>
  /\ chunkRecords = <<>>
  /\ statement = NoStatement
  /\ qpc = "build"
  /\ insertResult = NoResult
  /\ insertedRows = <<>>
  /\ completedSurveys = <<>>
  /\ batchStart = 0
  /\ unit = <<>>
  /\ epc = "loop"
  /\ surveyStats = NoSurveyStats
  /\ hojas = NoHojas
  /\ responding = {}
  /\ surveyId = 1
  /\ consecutiveErrors = 0
  /\ templates = <<>>
  /\ tpc = "loop"
  /\ surveyTemplate = NoTemplate
  /\ aiData = <<>>
  /\ anamnesis_hojas = <<>>
  /\ anamnesis_categorias = <<>>
  /\ anamnesis_preguntas = <<>>
  /\ migrations = <<>>

SpecSanitizer == InitSanitizer /\ [][SanitizerStep]_vars

\* a POST to a migration route has arrived
InitAuth ==
  /\ allRecords = <<>>
  /\ batchSize = 1
  /\ hasCallback = FALSE
  /\ lpc = "loop"
  /\ i = 0
  /\ stats = [totalRecords |-> Len(allRecords),
              totalBatches |-> Ceil(Len(allRecords), batchSize),
              successfulBatches |-> 0, failedBatches |-> 0,
              insertedRecords |-> 0, errors |-> <<>>]
  /\ table = {}
  /\ txn = {}
  /\ acquired = 0
  /\ released = 0
  /\ call = NoCall
  /\ result = NoResult
  /\ log = <<>>
  /\ thrownBy = "none"
  /\ mapperCache = {}
  /\ mcall = [c \in Callers |-> Idle]
  /\ oracleCalls = 0
  /\ started = 0
  /\ last = Nothing
  /\ prev = Nothing
  /\ mode = "getAllPaginated"
  /\ limit = 1
  /\ total = 0
  /\ rpc = "start"
  /\ page = 0
  /\ totalPages = 0
  /\ requests = <<>>
  /\ inFlight = 0
  /\ failedPages = {}
  /\ callbacks = <<>>
  /\ active = {}
  /\ held = {}
  /\ allResults = <<>>
  /\ rret = NotReturned
  /\ caught = "none"
  /\ lastCount = 0
  /\ fpc = "prepare"
  /\ step = 1
  /\ reconciled = <<>>
  /\ appointments = <<>>
  /\ citas = <<>>
  /\ preexisting = 0
  /\ currentPage = 0
  /\ pageRequests = <<>>
  /\ pagesFailed = {}
  /\ transformedBatch = <<>>
  /\ primaryIdMapping = {}
  /\ globalStats = NoStats
  /\ loads = <<>>
  /\ stages = {}
  /\ httpResponse = NoResponseSent
  /\ flow = "citas"
  /\ sales = <<>>
  /\ recibos = <<>>
  /\ detalle_recibo = <<>>
  /\ pacientes = <<>>
  /\ patientMapping = {}
  /\ detailErrors = {}
  /\ saleIndex = 1
  /\ transformedRecibos = <<>>
  /\ reciboIdMapping = {}
  /\ inputRecords = <<>>
  /\ requiredFields = {}
  /\ sanitized = <<>>
  /\ resanitized = <<>>
  /\ spc = "input"
  /\ request \in Requests
  /\ apc = "bearer"
  /\ authResponse = NoResponseSent
  /\ bearerToken = <<>>
  /\ handler = "idle"
  /\ notified = <<>>
  /\ chunkRecords = <<>>
  /\ statement = NoStatement
  /\ qpc = "build"
  /\ insertResult = NoResult
  /\ insertedRows = <<>>
  /\ completedSurveys = <<>>
  /\ batchStart = 0
  /\ unit = <<>>
  /\ epc = "loop"
  /\ surveyStats = NoSurveyStats
  /\ hojas = NoHojas
  /\ responding = {}
  /\ surveyId = 1
  /\ consecutiveErrors = 0
  /\ templates = <<>>
  /\ tpc = "loop"
  /\ surveyTemplate = NoTemplate
  /\ aiData = <<>>
  /\ anamnesis_hojas = <<>>
  /\ anamnesis_categorias = <<>>
  /\ anamnesis_preguntas = <<>>
  /\ migrations = <<>>

SpecAuth == InitAuth /\ [][AuthStep]_vars

\* insertBatch is called with a chunk of one or more records
InitInsert ==
  /\ allRecords = <<>>
  /\ batchSize = 1
  /\ hasCallback = FALSE
  /\ lpc = "loop"
  /\ i = 0
  /\ stats = [totalRecords |-> Len(allRecords),
              totalBatches |-> Ceil(Len(allRecords), batchSize),
              successfulBatches |-> 0, failedBatches |-> 0,
              insertedRecords |-> 0, errors |-> <<>>]
  /\ table = {}
  /\ txn = {}
  /\ acquired = 0
  /\ released = 0
  /\ call = NoCall
  /\ result = NoResult
  /\ log = <<>>
  /\ thrownBy = "none"
  /\ mapperCache = {}
  /\ mcall = [c \in Callers |-> Idle]
  /\ oracleCalls = 0
  /\ started = 0
  /\ last = Nothing
  /\ prev = Nothing
  /\ mode = "getAllPaginated"
  /\ limit = 1
  /\ total = 0
  /\ rpc = "start"
  /\ page = 0
  /\ totalPages = 0
  /\ requests = <<>>
  /\ inFlight = 0
  /\ failedPages = {}
  /\ callbacks = <<>>
  /\ active = {}
  /\ held = {}
  /\ allResults = <<>>
  /\ rret = NotReturned
  /\ caught = "none"
  /\ lastCount = 0
  /\ fpc = "prepare"
  /\ step = 1
  /\ reconciled = <<>>
  /\ appointments = <<>>
  /\ citas = <<>>
  /\ preexisting = 0
  /\ currentPage = 0
  /\ pageRequests = <<>>
  /\ pagesFailed = {}
  /\ transformedBatch = <<>>
  /\ primaryIdMapping = {}
  /\ globalStats = NoStats
  /\ loads = <<>>
  /\ stages = {}
  /\ httpResponse = NoResponseSent
  /\ flow = "citas"
  /\ sales = <<>>
  /\ recibos = <<>>
  /\ detalle_recibo = <<>>
  /\ pacientes = <<>>
  /\ patientMapping = {}
  /\ detailErrors = {}
  /\ saleIndex = 1
  /\ transformedRecibos = <<>>
  /\ reciboIdMapping = {}
  /\ inputRecords = <<>>
  /\ requiredFields = {}
  /\ sanitized = <<>>
  /\ resanitized = <<>>
  /\ spc = "input"
  /\ request = NoRequest
  /\ apc = "bearer"
  /\ authResponse = NoResponseSent
  /\ bearerToken = <<>>
  /\ handler = "idle"
  /\ notified = <<>>
  /\ chunkRecords \in UNION {[1..n -> Objects] : n \in 1..MaxChunk}
  /\ statement = NoStatement
  /\ qpc = "build"
  /\ insertResult = NoResult
  /\ insertedRows = <<>>
  /\ completedSurveys = <<>>
  /\ batchStart = 0
  /\ unit = <<>>
  /\ epc = "loop"
  /\ surveyStats = NoSurveyStats
  /\ hojas = NoHojas
  /\ responding = {}
  /\ surveyId = 1
  /\ consecutiveErrors = 0
  /\ templates = <<>>
  /\ tpc = "loop"
  /\ surveyTemplate = NoTemplate
  /\ aiData = <<>>
  /\ anamnesis_hojas = <<>>
  /\ anamnesis_categorias = <<>>
  /\ anamnesis_preguntas = <<>>
  /\ migrations = <<>>

SpecInsert == InitInsert /\ [][InsertStep]_vars

\* the survey responses: the state when the loop over the batches starts
InitEncuestas ==
  /\ allRecords = <<>>
  /\ batchSize = 1
  /\ hasCallback = FALSE
  /\ lpc = "loop"
  /\ i = 0
  /\ stats = [totalRecords |-> Len(allRecords),
              totalBatches |-> Ceil(Len(allRecords), batchSize),
              successfulBatches |-> 0, failedBatches |-> 0,
              insertedRecords |-> 0, errors |-> <<>>]
  /\ table = {}
  /\ txn = {}
  /\ acquired = 0
  /\ released = 0
  /\ call = NoCall
  /\ result = NoResult
  /\ log = <<>>
  /\ thrownBy = "none"
  /\ mapperCache = {}
  /\ mcall = [c \in Callers |-> Idle]
  /\ oracleCalls = 0
  /\ started = 0
  /\ last = Nothing
  /\ prev = Nothing
  /\ mode = "getAllPaginated"
  /\ limit = 1
  /\ total = 0
  /\ rpc = "start"
  /\ page = 0
  /\ totalPages = 0
  /\ requests = <<>>
  /\ inFlight = 0
  /\ failedPages = {}
  /\ callbacks = <<>>
  /\ active = {}
  /\ held = {}
  /\ allResults = <<>>
  /\ rret = NotReturned
  /\ caught = "none"
  /\ lastCount = 0
  /\ fpc = "prepare"
  /\ step = 1
  /\ reconciled = <<>>
  /\ appointments = <<>>
  /\ citas = <<>>
  /\ preexisting = 0
  /\ currentPage = 0
  /\ pageRequests = <<>>
  /\ pagesFailed = {}
  /\ transformedBatch = <<>>
  /\ primaryIdMapping = {}
  /\ globalStats = NoStats
  /\ loads = <<>>
  /\ stages = {}
  /\ httpResponse = NoResponseSent
  /\ flow = "citas"
  /\ sales = <<>>
  /\ recibos = <<>>
  /\ detalle_recibo = <<>>
  /\ pacientes = <<>>
  /\ patientMapping = {}
  /\ detailErrors = {}
  /\ saleIndex = 1
  /\ transformedRecibos = <<>>
  /\ reciboIdMapping = {}
  /\ inputRecords = <<>>
  /\ requiredFields = {}
  /\ sanitized = <<>>
  /\ resanitized = <<>>
  /\ spc = "input"
  /\ request = NoRequest
  /\ apc = "bearer"
  /\ authResponse = NoResponseSent
  /\ bearerToken = <<>>
  /\ handler = "idle"
  /\ notified = <<>>
  /\ chunkRecords = <<>>
  /\ statement = NoStatement
  /\ qpc = "build"
  /\ insertResult = NoResult
  /\ insertedRows = <<>>
  /\ completedSurveys \in
       UNION {{[x \in 1..n |-> Survey(x, pairOf[x])] : pairOf \in [1..n -> Pairs]} :
              n \in 0..MaxSurveys}
  /\ batchStart = 0
  /\ unit = [x \in DOMAIN completedSurveys |-> "idle"]
  /\ epc = "loop"
  /\ surveyStats = [NoSurveyStats EXCEPT !.total = Len(completedSurveys)]
  /\ hojas = NoHojas
  /\ responding = {}
  /\ surveyId = 1
  /\ consecutiveErrors = 0
  /\ templates = <<>>
  /\ tpc = "loop"
  /\ surveyTemplate = NoTemplate
  /\ aiData = <<>>
  /\ anamnesis_hojas = <<>>
  /\ anamnesis_categorias = <<>>
  /\ anamnesis_preguntas = <<>>
  /\ migrations = <<>>

SpecEncuestas == InitEncuestas /\ [][EncuestasStep]_vars

\* fetchAllSurveyTemplates against a source that answers some of the ids
InitTemplates ==
  /\ allRecords = <<>>
  /\ batchSize = 1
  /\ hasCallback = FALSE
  /\ lpc = "loop"
  /\ i = 0
  /\ stats = [totalRecords |-> Len(allRecords),
              totalBatches |-> Ceil(Len(allRecords), batchSize),
              successfulBatches |-> 0, failedBatches |-> 0,
              insertedRecords |-> 0, errors |-> <<>>]
  /\ table = {}
  /\ txn = {}
  /\ acquired = 0
  /\ released = 0
  /\ call = NoCall
  /\ result = NoResult
  /\ log = <<>>
  /\ thrownBy = "none"
  /\ mapperCache = {}
  /\ mcall = [c \in Callers |-> Idle]
  /\ oracleCalls = 0
  /\ started = 0
  /\ last = Nothing
  /\ prev = Nothing
  /\ mode = "getAllPaginated"
  /\ limit = 1
  /\ total = 0
  /\ rpc = "start"
  /\ page = 0
  /\ totalPages = 0
  /\ requests = <<>>
  /\ inFlight = 0
  /\ failedPages = {}
  /\ callbacks = <<>>
  /\ active = {}
  /\ held = {}
  /\ allResults = <<>>
  /\ rret = NotReturned
  /\ caught = "none"
  /\ lastCount = 0
  /\ fpc = "prepare"
  /\ step = 1
  /\ reconciled = <<>>
  /\ appointments = <<>>
  /\ citas = <<>>
  /\ preexisting = 0
  /\ currentPage = 0
  /\ pageRequests = <<>>
  /\ pagesFailed = {}
  /\ transformedBatch = <<>>
  /\ primaryIdMapping = {}
  /\ globalStats = NoStats
  /\ loads = <<>>
  /\ stages = {}
  /\ httpResponse = NoResponseSent
  /\ flow = "citas"
  /\ sales = <<>>
  /\ recibos = <<>>
  /\ detalle_recibo = <<>>
  /\ pacientes = <<>>
  /\ patientMapping = {}
  /\ detailErrors = {}
  /\ saleIndex = 1
  /\ transformedRecibos = <<>>
  /\ reciboIdMapping = {}
  /\ inputRecords = <<>>
  /\ requiredFields = {}
  /\ sanitized = <<>>
  /\ resanitized = <<>>
  /\ spc = "input"
  /\ request = NoRequest
  /\ apc = "bearer"
  /\ authResponse = NoResponseSent
  /\ bearerToken = <<>>
  /\ handler = "idle"
  /\ notified = <<>>
  /\ chunkRecords = <<>>
  /\ statement = NoStatement
  /\ qpc = "build"
  /\ insertResult = NoResult
  /\ insertedRows = <<>>
  /\ completedSurveys = <<>>
  /\ batchStart = 0
  /\ unit = <<>>
  /\ epc = "loop"
  /\ surveyStats = NoSurveyStats
  /\ hojas = NoHojas
  /\ responding \in SUBSET (1..MaxTemplateId)
  /\ surveyId = 1
  /\ consecutiveErrors = 0
  /\ templates = <<>>
  /\ tpc = "loop"
  /\ surveyTemplate = NoTemplate
  /\ aiData = <<>>
  /\ anamnesis_hojas = <<>>
  /\ anamnesis_categorias = <<>>
  /\ anamnesis_preguntas = <<>>
  /\ migrations = <<>>

SpecTemplates == InitTemplates /\ [][TemplatesStep]_vars

\* every request of the loop is answered or fails, so the loop goes on
SpecTemplatesFair == SpecTemplates /\ WF_vars(TemplatesStep)

\* migrateSurveyTemplate called for one template by runs of the two tenants,
\* the tables empty before the first
InitPlantillas ==
  /\ allRecords = <<>>
  /\ batchSize = 1
  /\ hasCallback = FALSE
  /\ lpc = "loop"
  /\ i = 0
  /\ stats = [totalRecords |-> Len(allRecords),
              totalBatches |-> Ceil(Len(allRecords), batchSize),
              successfulBatches |-> 0, failedBatches |-> 0,
              insertedRecords |-> 0, errors |-> <<>>]
  /\ table = {}
  /\ txn = {}
  /\ acquired = 0
  /\ released = 0
  /\ call = NoCall
  /\ result = NoResult
  /\ log = <<>>
  /\ thrownBy = "none"
  /\ mapperCache = {}
  /\ mcall = [c \in Callers |-> Idle]
  /\ oracleCalls = 0
  /\ started = 0
  /\ last = Nothing
  /\ prev = Nothing
  /\ mode = "getAllPaginated"
  /\ limit = 1
  /\ total = 0
  /\ rpc = "start"
  /\ page = 0
  /\ totalPages = 0
  /\ requests = <<>>
  /\ inFlight = 0
  /\ failedPages = {}
  /\ callbacks = <<>>
  /\ active = {}
  /\ held = {}
  /\ allResults = <<>>
  /\ rret = NotReturned
  /\ caught = "none"
  /\ lastCount = 0
  /\ fpc = "prepare"
  /\ step = 1
  /\ reconciled = <<>>
  /\ appointments = <<>>
  /\ citas = <<>>
  /\ preexisting = 0
  /\ currentPage = 0
  /\ pageRequests = <<>>
  /\ pagesFailed = {}
  /\ transformedBatch = <<>>
  /\ primaryIdMapping = {}
  /\ globalStats = NoStats
  /\ loads = <<>>
  /\ stages = {}
  /\ httpResponse = NoResponseSent
  /\ flow = "citas"
  /\ sales = <<>>
  /\ recibos = <<>>
  /\ detalle_recibo = <<>>
  /\ pacientes = <<>>
  /\ patientMapping = {}
  /\ detailErrors = {}
  /\ saleIndex = 1
  /\ transformedRecibos = <<>>
  /\ reciboIdMapping = {}
  /\ inputRecords = <<>>
  /\ requiredFields = {}
  /\ sanitized = <<>>
  /\ resanitized = <<>>
  /\ spc = "input"
  /\ request = NoRequest
  /\ apc = "bearer"
  /\ authResponse = NoResponseSent
  /\ bearerToken = <<>>
  /\ handler = "idle"
  /\ notified = <<>>
  /\ chunkRecords = <<>>
  /\ statement = NoStatement
  /\ qpc = "build"
  /\ insertResult = NoResult
  /\ insertedRows = <<>>
  /\ completedSurveys = <<>>
  /\ batchStart = 0
  /\ unit = <<>>
  /\ epc = "loop"
  /\ surveyStats = NoSurveyStats
  /\ hojas = NoHojas
  /\ responding = {}
  /\ surveyId = 1
  /\ consecutiveErrors = 0
  /\ templates = <<>>
  /\ tpc = "loop"
  /\ surveyTemplate \in {Template(n) : n \in 1..MaxQuestions}
  /\ aiData \in AiDataFor(Len(surveyTemplate.preguntas))
  /\ anamnesis_hojas = <<>>
  /\ anamnesis_categorias = <<>>
  /\ anamnesis_preguntas = <<>>
  /\ migrations = <<>>

SpecPlantillas == InitPlantillas /\ [][PlantillasStep]_vars

-----------------------------------------------------------------------------
(* Properties of the loader *)

\* the number of chunks of N records in chunks of K, stated without Ceil:
\* the c with (c-1)*K < N <= c*K, and 0 for N = 0
NumChunks ==
  CHOOSE c \in 0..Len(allRecords) :
    \/ Len(allRecords) = 0 /\ c = 0
    \/ c >= 1 /\ (c - 1) * batchSize < Len(allRecords)
              /\ Len(allRecords) <= c * batchSize

\* the record ids of the x-th chunk (x counted from 1)
ChunkRows(x) == {r \in 1..Len(allRecords) :
                   (x - 1) * batchSize < r /\ r <= x * batchSize}

\* the chunks whose outcome processBatches has entered in stats
Recorded == stats.successfulBatches + stats.failedBatches

FailedEntries == {x \in 1..Len(log) : ~log[x].success}

\* C1: a chunk whose multi-row insert fails at some record leaves none of its
\* records in the target table (its transaction is never committed), neither
\* while the call is still unwinding nor afterwards, and when processBatches
\* returns every chunk, the ones after the failed chunk included, has had its
\* own insertBatch call.
C1_FailedInsertPersistsNothing ==
  /\ \A x \in 1..Len(log) :
       log[x].failStep = "execute" => ChunkRows(x) \cap table = {}
  /\ call.failStep = "execute" => ChunkRows(i + 1) \cap table = {}
  /\ lpc = "returned" =>
       \A x \in 1..NumChunks : x <= Len(log) /\ log[x].batch = x

C1_Witness ==
  /\ lpc = "returned"
  /\ \E x \in 1..Len(log) :
       /\ log[x].failStep = "execute"
       /\ log[x].size >= 2
       /\ x < Len(log)
       /\ log[x + 1].success
       /\ ChunkRows(x + 1) \subseteq table

\* C2: a failed chunk does not end processBatches: at return every chunk has
\* been loaded, and insertedRecords is the sum of the sizes of exactly the
\* chunks whose load succeeded.
C2_FailedChunkDoesNotAbort ==
  lpc = "returned" =>
    /\ Len(log) = NumChunks
    /\ stats.insertedRecords = SumSizes(log)

C2_Witness ==
  /\ lpc = "returned"
  /\ \E x, y \in 1..Len(log) : x < y /\ ~log[x].success /\ log[y].success
  /\ stats.insertedRecords > 0
  /\ stats.insertedRecords < Len(allRecords)

\* C3: for N records and chunk size K >= 1 processBatches issues exactly
\* ceil(N/K) chunk loads, every chunk but the last of K records and the last
\* of N - (ceil(N/K)-1)*K, and at return
\* successfulBatches + failedBatches = totalBatches = ceil(N/K).
C3_ChunkCount ==
  lpc = "returned" =>
    /\ Len(log) = NumChunks
    /\ \A x \in 1..Len(log) :
         log[x].size = IF x < NumChunks THEN batchSize
                       ELSE Len(allRecords) - (NumChunks - 1) * batchSize
    /\ stats.successfulBatches + stats.failedBatches = stats.totalBatches
    /\ stats.totalBatches = NumChunks

C3_Witness ==
  /\ lpc = "returned"
  /\ Len(allRecords) % batchSize # 0
  /\ Len(log) >= 2
  /\ log[Len(log)].size < batchSize

\* C4: no store failure makes processBatches throw: a failure to get a
\* connection or to begin, execute, commit or roll back the transaction of a
\* chunk is entered in stats.errors exactly once, with the chunk's index and
\* the store's error code, and processBatches goes on to return its stats.
C4_StoreFailureNeverThrown ==
  /\ thrownBy # "store"
  /\ lpc = "thrown" => thrownBy = "onBatchComplete"
  /\ \A x \in FailedEntries :
       x <= Recorded =>
         /\ Cardinality({e \in 1..Len(stats.errors) : stats.errors[e].batch = x}) = 1
         /\ \E e \in 1..Len(stats.errors) :
              /\ stats.errors[e].batch = x
              /\ stats.errors[e].code = log[x].code
              /\ log[x].code # "none"
  /\ lpc = "returned" => Len(stats.errors) = Cardinality(FailedEntries)

C4_Witness ==
  /\ lpc = "returned"
  /\ \E x, y \in 1..Len(log) :
       /\ log[x].failStep = "getConnection"
       /\ log[y].rollbackFailed
       /\ log[y].failStep = "commit"
  /\ Len(stats.errors) >= 2

\* C5: every connection transaction() acquires is released exactly once on
\* every exit path: while a transaction runs exactly one connection is held,
\* and once the chunk load has left transaction() none is.
C5_ConnectionReleased ==
  /\ released <= acquired
  /\ lpc \in {"beginTransaction", "execute", "commit", "rollback", "release"}
       => acquired = released + 1
  /\ lpc \in {"loop", "getConnection", "insertBatchEnd", "result", "callback",
              "returned", "thrown"}
       => acquired = released

C5_Witness ==
  /\ lpc = "returned"
  /\ acquired >= 2
  /\ \E x, y \in 1..Len(log) :
       /\ log[x].rollbackFailed
       /\ log[y].failStep = "beginTransaction"
       /\ ~log[y].rollbackFailed

-----------------------------------------------------------------------------
(* Properties of the reconciliation engine *)

SameTriple(a, b) ==
  /\ a.entityType = b.entityType
  /\ a.apiResult = b.apiResult
  /\ a.dbResult = b.dbResult

\* the two latest operations are mapData calls with identical arguments, the
\* second begun after the first returned, with no clearCache in between
Successive ==
  /\ prev.op = "mapData"
  /\ last.op = "mapData"
  /\ SameTriple(prev, last)

Invocations == (IF prev.invoked THEN 1 ELSE 0) + (IF last.invoked THEN 1 ELSE 0)

IsMapping(r) == r.error = "none"

\* C6 as stated: two successive mapData calls with identical (entityType,
\* sourceItems, targetItems) cause exactly one oracle invocation, and the
\* second returns the same object as the first.
C6_AlwaysOneInvocation ==
  Successive => Invocations = 1 /\ last.ret = prev.ret

\* C6, amended: when the first of two successive mapData calls with identical
\* arguments returns a mapping, the second invokes no oracle and returns the
\* same object; the two calls then cause exactly one oracle invocation if the
\* first one found the cache empty for the key.
C6_HitAfterMapping ==
  (Successive /\ prev.end = "returned" /\ IsMapping(prev.ret)) =>
    /\ ~last.invoked
    /\ last.end = "returned"
    /\ last.ret = prev.ret
    /\ prev.invoked => Invocations = 1

C6_Witness ==
  /\ Successive
  /\ prev.invoked
  /\ IsMapping(prev.ret)
  /\ ~last.invoked
  /\ last.ret.obj = prev.ret.obj
  /\ oracleCalls = 1

\* the structure the engine is to insist on: mapper an object all of whose
\* values are numeric, missing an array
WellFormed(r) ==
  /\ r.mapperShape \in {"object", "array"}
  /\ r.numeric
  /\ r.missing = "array"

\* C7: mapData returns, and caches, a mapping only if the oracle's mapper is
\* an object, every value of mapper is coercible to a numeric target id and
\* missing is an array.
C7_OnlyWellFormedMappings ==
  /\ (last.op = "mapData" /\ last.end = "returned" /\ IsMapping(last.ret))
       => WellFormed(last.ret)
  /\ \A e \in mapperCache : WellFormed(e[2])

\* the oracle answers for which mapData is to return an error: the request
\* failed, the content holds no parseable JSON object, the object reports
\* {error, message}, or its mapper or missing fails the engine's own checks
ErrorCase(resp) ==
  \/ resp.status = "rejected"
  \/ resp.fence = "unclosed"
  \/ resp.body.json # "object"
  \/ resp.body.error # "none" /\ resp.body.hasMessage
  \/ resp.body.error = "none" /\ resp.body.mapperShape \in {"undefined", "null", "string"}
  \/ resp.body.error = "none" /\ resp.body.missing # "array"

\* C8: mapData never throws; when the oracle call fails, its output is not
\* parseable or fails the structural checks, or the oracle reports
\* {error, message}, the call returns an object with an error kind and a
\* message.
C8_ErrorsAreReturned ==
  last.op = "mapData" =>
    /\ last.end = "returned"
    /\ (last.invoked /\ ErrorCase(last.response)) =>
         /\ last.ret.error # "none"
         /\ last.ret.hasMessage

C8_Witness ==
  /\ prev.op = "mapData"
  /\ prev.ret.error = "AI_MAPPING_ERROR"
  /\ last.op = "mapData"
  /\ last.response.status = "ok"
  /\ last.response.body.error = "NO_MATCH"
  /\ last.ret.error = "NO_MATCH"
  /\ last.ret.hasMessage

-----------------------------------------------------------------------------
(* Properties of the paginated reader *)

\* the pages the first count calls for, stated without Ceil, and page 0,
\* which is always requested
PagesDue == {0} \cup {p \in 0..total : p * limit < total}

\* the page a record of the source is served on
PageOf(r) == (r - 1) \div limit

CallbackPages == [x \in 1..Len(callbacks) |-> callbacks[x].pageIndex]

\* the elements of the set of pages S in ascending order
RECURSIVE Ascending(_)
Ascending(S) ==
  IF S = {} THEN <<>>
  ELSE LET m == CHOOSE x \in S : \A y \in S : x <= y
       IN <<m>> \o Ascending(S \ {m})

\* C9: in both operations a failed first request ends the operation with
\* success = false, no further request and no callback; a failed request for
\* a later page skips that page only (no record of it is materialized, no
\* callback is made for it), every remaining page is still requested and the
\* operation returns success = true.
C9_FirstFatalLaterSkipped ==
  /\ (rret.returned /\ 0 \in failedPages) =>
       /\ ~rret.success
       /\ requests = <<0>>
       /\ callbacks = <<>>
       /\ allResults = <<>>
  /\ \A p \in failedPages :
       /\ \A x \in 1..Len(callbacks) : callbacks[x].pageIndex # p
       /\ \A x \in 1..Len(allResults) : PageOf(allResults[x]) # p
  /\ (rret.returned /\ 0 \notin failedPages /\ caught = "none") =>
       /\ rret.success
       /\ requests = [x \in 1..Cardinality(PagesDue) |-> (x - 1) * limit]
       /\ mode = "processPaginatedInBatches" =>
            CallbackPages = Ascending(PagesDue \ failedPages)
       /\ mode = "getAllPaginated" =>
            allResults = Ascending({r \in 1..total : PageOf(r) \notin failedPages})

C9_Witness ==
  /\ rret.returned
  /\ rret.success
  /\ mode = "processPaginatedInBatches"
  /\ failedPages = {1}
  /\ CallbackPages = <<0, 2>>
  /\ requests = <<0, limit, 2 * limit>>

\* C10, the ordering alone: no request is in flight while a processFn call
\* runs, and at most one processFn call runs at a time.
C10_RequestAfterCallback ==
  /\ inFlight > 0 => active = {}
  /\ Cardinality(active) <= 1
  /\ inFlight <= 1

\* C10: processPaginatedInBatches never requests the next page before the
\* processFn call of the current page has finished; at any time at most one
\* page's records are held and at most one processFn call is in progress.
C10_OnePageAtATime ==
  mode = "processPaginatedInBatches" =>
    /\ inFlight > 0 => active = {}
    /\ Cardinality(active) <= 1
    /\ Cardinality(held) <= 1

\* the number of pages the first count calls for
NumPages == Cardinality(PagesDue)

\* the invocations of processFn a source of `total` records served `limit` per
\* page calls for
PagesExpected ==
  [x \in 1..NumPages |->
     [pageIndex |-> x - 1, totalPages |-> NumPages,
      records |-> IF x < NumPages THEN limit
                  ELSE total - (NumPages - 1) * limit]]

\* C11: for a source of N >= 1 records served K per page with no failed
\* request, processPaginatedInBatches with page size K invokes processFn
\* exactly ceil(N/K) times, with pageIndex 0, 1, ... in ascending order, the
\* same totalPages = ceil(N/K) every time and K records each time but the
\* last, which has N - (ceil(N/K)-1)*K; while it runs the invocations made so
\* far are the first of these.
C11_PageCallbacks ==
  (mode = "processPaginatedInBatches" /\ total >= 1 /\ failedPages = {}) =>
    /\ Len(callbacks) <= NumPages
    /\ callbacks = SubSeq(PagesExpected, 1, Len(callbacks))
    /\ (rret.returned /\ caught = "none") => callbacks = PagesExpected

C11_Witness ==
  /\ mode = "processPaginatedInBatches"
  /\ rret.returned
  /\ rret.success
  /\ failedPages = {}
  /\ [x \in 1..Len(callbacks) |-> callbacks[x].records] = <<2, 2, 1>>
  /\ \A x \in 1..Len(callbacks) : callbacks[x].totalPages = 3

\* the records of the pages of the sequence ps, one page after the other
RECURSIVE ConcatPages(_)
ConcatPages(ps) ==
  IF ps = <<>> THEN <<>>
  ELSE pageRecords(ps[1] * limit) \o ConcatPages(Tail(ps))

\* C12: getAllPaginated with page size K requests the offsets 0, K, 2K, ...,
\* (ceil(T/K)-1)*K once each in ascending order, T being the count of the
\* first answer, whatever counts later answers report (offset 0 alone when
\* T = 0); it returns the records of the pages fetched, in offset order, with
\* totalCount = T and fetchedCount = the number of records materialized.
C12_OffsetsFromFirstCount ==
  /\ (mode = "getAllPaginated" /\ 0 \notin failedPages) =>
       /\ Len(requests) <= NumPages
       /\ \A x \in 1..Len(requests) : requests[x] = (x - 1) * limit
  /\ (mode = "getAllPaginated" /\ rret.returned /\ 0 \notin failedPages) =>
       /\ rret.success
       /\ Len(requests) = NumPages
       /\ allResults = ConcatPages(Ascending(PagesDue \ failedPages))
       /\ rret.totalCount = total
       /\ rret.count = Len(allResults)

C12_Witness ==
  /\ mode = "getAllPaginated"
  /\ rret.returned
  /\ rret.success
  /\ requests = <<0, 2, 4>>
  /\ failedPages = {1}
  /\ lastCount = 1
  /\ allResults = <<1, 2, 5>>
  /\ rret.totalCount = 5
  /\ rret.count = 3

-----------------------------------------------------------------------------
(* Properties of the appointments flow *)

\* the positions of the rows of citas the run has inserted
RunRows == (preexisting + 1)..Len(citas)

\* the rows the run has inserted for a source id
RowsFor(o) == {x \in RunRows : citas[x].old_id = o}

OldIds(recs) == {recs[x].old_id : x \in 1..Len(recs)}

\* C13: in the appointments flow no secondary record of a page is handed to
\* the loader before the processBatches call for the page's primary records
\* has returned and the re-query of their generated ids has completed: the
\* load before a secondary load is the primary load of the same page, with
\* the primary of every secondary among its records.
C13_SecondariesAfterPrimaries ==
  \A x \in 1..Len(loads) :
    loads[x].kind = "secondary" =>
      /\ <<loads[x].page, "primariesLoaded">> \in stages
      /\ <<loads[x].page, "requeried">> \in stages
      /\ x > 1
      /\ loads[x - 1].kind = "primary"
      /\ loads[x - 1].page = loads[x].page
      /\ OldIds(loads[x].records) \subseteq OldIds(loads[x - 1].records)

C13_Witness ==
  /\ fpc = "done"
  /\ \E x \in 1..Len(loads) :
       /\ loads[x].kind = "secondary"
       /\ loads[x].page = 1
       /\ Len(loads[x].records) >= 2

\* C14: a secondary record whose primary is absent from the re-query result
\* is never inserted, in particular never with a null reference: no row the
\* run inserts for a service after the first has a null id_cita_reference.
C14_UnresolvedSecondaryDropped ==
  \A x \in RunRows :
    citas[x].service > 1 => citas[x].id_cita_reference # Null

\* the run met no failure of the store or of the source and the target held
\* no row of the tenant before it
CleanRun ==
  /\ fpc = "done"
  /\ httpResponse.status = 200
  /\ globalStats.failedBatches = 0
  /\ pagesFailed = {}
  /\ \A x \in 1..preexisting : citas[x].tenant # "own"

\* the rows of the appointment of index a are one primary row with a null
\* reference and one secondary row for each further service, referring to the
\* generated id of that primary row
FannedOut(a) ==
  LET o == SourceId(a)
      n == IF Len(appointments[a].servicios) > 0
           THEN Len(appointments[a].servicios) ELSE 1 IN
    /\ Cardinality(RowsFor(o)) = n
    /\ \A k \in 1..n : \E x \in RowsFor(o) : citas[x].service = k
    /\ \A x \in RowsFor(o) :
         IF citas[x].service = 1
         THEN citas[x].id_cita_reference = Null
         ELSE /\ citas[x].id_cita_reference # o
              /\ \E y \in RowsFor(o) :
                   /\ citas[y].service = 1
                   /\ citas[x].id_cita_reference = citas[y].id_cita

C18_NoAbortAfterFirstPage ==
  (fpc = "done" /\ pageRequests # <<>> /\ 0 \notin pagesFailed) =>
    /\ httpResponse.status \in {200, 207}
    /\ pageRequests = [x \in 1..Len(pageRequests) |-> x - 1]
    /\ Len(pageRequests) = IF streamPages = 0 THEN 1 ELSE streamPages

\* C19: a source record that refers to a doctor or a treatment with no entry
\* in the reconciled mapper is not loaded: no row the run inserts belongs to
\* an appointment whose doctor is unmapped or is made for an unmapped service.
C19_UnmappedNeverLoaded ==
  \A x \in RunRows :
    LET a == appointments[citas[x].old_id - SourceIdBase] IN
      /\ a.user # "unmapped"
      /\ Len(a.servicios) > 0 => a.servicios[citas[x].service] # "unmapped"

-----------------------------------------------------------------------------
(* Properties of every migration flow *)

\* the reconciliations of the run that returned an error result or a
\* non-empty missing list
FailedReconciliations ==
  {x \in 1..Len(reconciled) : reconciled[x].outcome \in {"error", "missing"}}

\* C16: in every flow, when the reconciliation of a reference dimension
\* returns an error result or a non-empty missing list, no load on any target
\* table is issued in the run, and the run ends with an error response.  The
\* appointments flow keeps it; the receipts flow reconciles the gender
\* dimension inside fetchAndRegisterPatient, ignores an error result and
\* loads the patient (and later the receipts) all the same.
C16_ReconciliationFailureIsFatal ==
  FailedReconciliations # {} =>
    /\ loads = <<>>
    /\ fpc = "done" => httpResponse.status \in {400, 500}

\* C17: in every flow the response is 200 with success only if no chunk
\* of any load of the run failed, and a run with a failed chunk answers 207
\* with success = false.  The appointments flow keeps it; the receipts flow
\* adds the failed chunks of detalle_recibo to warnings.failedDetails and
\* does not count those of the patient load, so it answers 200.
C17_SuccessOnlyWithoutFailedChunk ==
  /\ httpResponse.status = 200 =>
       /\ httpResponse.success
       /\ \A x \in 1..Len(loads) : loads[x].failedBatches = 0
  /\ httpResponse.status = 207 =>
       /\ ~httpResponse.success
       /\ \E x \in 1..Len(loads) : loads[x].failedBatches > 0

-----------------------------------------------------------------------------
(* Properties of the sanitizer *)

\* C20: for every record, convertUndefinedToNull returns a record with
\* exactly the same field names, where every field that held undefined is
\* null and every other field (null, the empty string and any value alike)
\* keeps its value; sanitizing the result again changes nothing.
C20_SanitizeKeepsFields ==
  /\ spc \in {"once", "twice"} =>
       /\ Len(sanitized) = Len(inputRecords)
       /\ \A x \in 1..Len(inputRecords) :
            /\ DOMAIN sanitized[x].own = DOMAIN inputRecords[x].own
            /\ \A f \in DOMAIN inputRecords[x].own :
                 /\ inputRecords[x].own[f] = "undefined" =>
                      sanitized[x].own[f] = "null"
                 /\ inputRecords[x].own[f] # "undefined" =>
                      sanitized[x].own[f] = inputRecords[x].own[f]
  /\ spc = "twice" => resanitized = sanitized

\* a record with an undefined field, an empty string and an inherited name
\* has been sanitized twice
C20_Witness ==
  /\ spc = "twice"
  /\ \E x \in 1..Len(inputRecords) :
       /\ inputRecords[x].own = [f \in FieldNames |->
                                   IF f = "old_id" THEN "undefined" ELSE ""]
       /\ inputRecords[x].proto # {}
       /\ sanitized[x].own["old_id"] = "null"
       /\ sanitized[x].own["comentarios"] = ""

-----------------------------------------------------------------------------
(* Properties of the middlewares *)

\* the Authorization header is absent, does not start with "Bearer ", or
\* carries an empty token
BadAuthorization ==
  \/ request.authorization \in {<<"undefined">>, <<>>}
  \/ request.authorization[1] # "Bearer "
  \/ Len(request.authorization) = 1

\* the body lacks clinic.id_clinica and clinic.id_super_clinica as numbers
BadClinic ==
  \/ ~request.clinic.present
  \/ request.clinic.id_clinica.typeof # "number"
  \/ request.clinic.id_super_clinica.typeof # "number"

\* C21: the route handler never runs for a request whose Authorization header
\* is absent, not a "Bearer " header or one with an empty token, which is
\* answered 401, nor for a request whose body lacks the two clinic ids as
\* numbers, which is answered 400 (401 when its header is bad as well).
C21_RejectedBeforeHandler ==
  /\ BadAuthorization \/ BadClinic => handler = "idle" /\ apc # "handler"
  /\ apc = "responded" /\ BadAuthorization => authResponse.status = 401
  /\ apc = "responded" /\ ~BadAuthorization /\ BadClinic =>
       authResponse.status = 400

\* a request with a bearer token and a clinic id given as a string has been
\* answered 400 by validateClinicData
C21_Witness ==
  /\ apc = "responded"
  /\ bearerToken = <<"token">>
  /\ request.clinic.id_clinica = [typeof |-> "string", truthy |-> TRUE]
  /\ request.clinic.id_super_clinica = [typeof |-> "number", truthy |-> TRUE]
  /\ authResponse = failure(400, "INVALID_CLINIC_DATA_TYPE")
  /\ handler = "idle"

-----------------------------------------------------------------------------
(* Properties of the cache *)

\* the entity type a cache key was generated for: the key without its "_",
\* apiHash, "_", dbHash
EntityTypeOf(key) == SubSeq(key, 1, Len(key) - 4)

\* C22: clearCache(entityType) removes every entry of that entity type and
\* leaves the entries of every other type as they are, also those of a type
\* whose name starts with the cleared name ("appointment" and
\* "appointment_state"); clearCache() empties the cache.  The code deletes
\* every key that starts with entityType + "_", and the key of
\* "appointment_state" starts with "appointment_".
C22_ClearOnlyThatType ==
  [][(last'.op = "clearCache" /\ started' = started) =>
       mapperCache' = IF last'.entityType = <<>> THEN {}
                      ELSE {e \in mapperCache :
                              EntityTypeOf(e[1]) # last'.entityType}]_vars

\* the identifier of a source item: its id, or its value when it is an option
SourceIds(apiResult) ==
  {IF apiResult[x].id # undefined THEN apiResult[x].id ELSE apiResult[x].value :
     x \in 1..Len(apiResult)}

\* the latest mapData call was answered from the cache with the object the
\* call before it stored
HitOnPrevious ==
  /\ prev.op = "mapData"
  /\ prev.invoked
  /\ last.op = "mapData"
  /\ ~last.invoked
  /\ last.ret = prev.ret

\* C23: a cached mapping is returned only for a call with the entity type, the
\* set of source identifiers and the set of target keys of the call that
\* stored it, whatever the order of the items.  The key is built from
\* item.id, which is undefined for the options of a form endpoint
\* ({value, text}): two lists of as many options share a key.
C23_HitOnlyForSameSets ==
  HitOnPrevious =>
    /\ last.entityType = prev.entityType
    /\ SourceIds(last.apiResult) = SourceIds(prev.apiResult)
    /\ Range(last.dbResult) = Range(prev.dbResult)

\* C23 for items that all have an id
C23_HitOnlyForSameIds ==
  (/\ HitOnPrevious
   /\ \A item \in Range(last.apiResult) \cup Range(prev.apiResult) :
        item.id # undefined) =>
    /\ last.entityType = prev.entityType
    /\ SourceIds(last.apiResult) = SourceIds(prev.apiResult)
    /\ Range(last.dbResult) = Range(prev.dbResult)

-----------------------------------------------------------------------------
(* Properties of the loader: order of the chunks *)

InsideInsertBatch ==
  lpc \in {"getConnection", "beginTransaction", "execute", "commit",
           "rollback", "release", "insertBatchEnd"}

\* C24: within a processBatches call the chunks are loaded one after the
\* other in ascending order: while the load of a chunk runs, the loads of all
\* chunks before it have ended (no row of theirs is pending, no connection of
\* theirs is held) and onBatchComplete has been called for each of them and
\* has returned; onBatchComplete is called exactly once per chunk, in chunk
\* order, for successful and failed chunks alike.
C24_ChunksStrictlySequential ==
  /\ \A x \in 1..Len(log) : log[x].batch = x
  /\ InsideInsertBatch =>
       /\ Len(log) = i
       /\ txn \subseteq Range(batchOf(i))
       /\ acquired - released <= 1
       /\ lpc = "getConnection" => txn = {} /\ acquired = released
       /\ hasCallback => Len(notified) = i
  /\ hasCallback =>
       /\ \A x \in 1..Len(notified) :
            /\ notified[x].batch = x
            /\ notified[x].success = log[x].success
       /\ lpc = "callback" => Len(notified) = i + 1 /\ Len(log) = i + 1
       /\ lpc = "returned" => Len(notified) = NumChunks
  /\ ~hasCallback => notified = <<>>

\* a failed chunk and then a successful one have been loaded and reported,
\* and the load of a third chunk is running
C24_Witness ==
  /\ hasCallback
  /\ lpc = "execute"
  /\ i = 2
  /\ ~notified[1].success
  /\ notified[2].success

\* the errors due at return: one descriptor per failed chunk, in chunk order
RECURSIVE ErrorsDue(_)
ErrorsDue(entries) ==
  IF entries = <<>> THEN <<>>
  ELSE (IF entries[1].success THEN <<>>
        ELSE <<[batch |-> entries[1].batch,
                offset |-> (entries[1].batch - 1) * batchSize,
                code |-> entries[1].code]>>)
       \o ErrorsDue(Tail(entries))

\* C30: at return of processBatches stats.errors holds exactly one descriptor
\* per failed chunk, in ascending chunk order, with batch = i + 1 and
\* offset = i * batchSize for the failed chunk of zero-based index i;
\* errors.length = failedBatches and insertedRecords <= totalRecords.
C30_ErrorDescriptors ==
  lpc = "returned" =>
    /\ stats.errors = ErrorsDue(log)
    /\ Len(stats.errors) = stats.failedBatches
    /\ stats.insertedRecords <= stats.totalRecords

\* processBatches has returned after the second and the third chunk failed
C30_Witness ==
  /\ lpc = "returned"
  /\ Len(log) >= 3
  /\ log[1].success
  /\ stats.errors[1].batch = 2
  /\ stats.errors[1].offset = batchSize
  /\ stats.errors[2].batch = 3
  /\ stats.insertedRecords = batchSize

-----------------------------------------------------------------------------
(* Properties of the statement of a chunk *)

\* the records of the chunk do not all have the same columns
Heterogeneous ==
  \E x, y \in 1..Len(chunkRecords) :
    DOMAIN chunkRecords[x].own # DOMAIN chunkRecords[y].own

\* C25: a chunk whose records do not all share the same column set is
\* rejected with an error kind of its own and none of its records is
\* inserted; it is never inserted with columns of later records dropped or
\* filled in.  insertBatch takes the columns of the first record only: a
\* later record with more columns is inserted without them.
C25_HeterogeneousChunkRejected ==
  (qpc = "done" /\ Heterogeneous) =>
    /\ ~insertResult.success
    /\ insertResult.code \notin ExecuteCodes
    /\ insertedRows = <<>>

\* C25 for the chunks with a record that lacks a column of the first record:
\* the statement is rejected and no row is inserted
C25_MissingColumnRejected ==
  (qpc = "done" /\ \E x \in 1..Len(chunkRecords) :
                     ~(DOMAIN chunkRecords[1].own \subseteq
                         DOMAIN chunkRecords[x].own)) =>
    /\ ~insertResult.success
    /\ insertedRows = <<>>

\* the latest mapData call ran under the one-to-one policy and the oracle
\* answered it with a well-formed result that maps two source ids to the same
\* target id
NonInjectiveAnswer ==
  /\ last.op = "mapData"
  /\ ~last.allowManyToOne
  /\ last.invoked
  /\ last.response.status = "ok"
  /\ last.response.fence # "unclosed"
  /\ last.response.body = [ValidBody EXCEPT !.injective = FALSE]

\* C26 as stated: under the default one-to-one policy an oracle result in
\* which two source ids map to the same target id is returned as an error and
\* not as a mapping.
C26_NonInjectiveFlagged ==
  NonInjectiveAnswer => last.ret.error # "none"

\* C26, amended: mapData does not check injectivity.  Under the default
\* policy an oracle result that is structurally valid but maps two source ids
\* to the same target id is returned as a mapping, as the oracle gave it, and
\* stored in the cache.
C26_NonInjectiveTrusted ==
  NonInjectiveAnswer =>
    /\ last.end = "returned"
    /\ IsMapping(last.ret)
    /\ ~last.ret.injective
    /\ <<generateCacheKey(last.entityType, last.apiResult, last.dbResult),
         last.ret>> \in mapperCache

C26_Witness ==
  /\ NonInjectiveAnswer
  /\ last.entityType = <<Text("tax")>>
  /\ Len(last.apiResult) = 2
  /\ IsMapping(last.ret)
  /\ \E e \in mapperCache : ~e[2].injective

\* the surveys whose detail request is in flight
DetailsInFlight == {x \in DOMAIN unit : unit[x] = "detail"}

\* the positions of the batch the loop is at
CurrentBatch == surveyBatch(batchStart)

\* C27 as stated: the detail requests in flight never exceed the batch size,
\* no request of a later batch has started while a callback of the current
\* batch is unfinished, and no load (the INSERT of a survey's answers) has
\* started while a detail request of the batch is still in flight.
C27_BoundedFanOut ==
  /\ Cardinality(DetailsInFlight) <= BATCH_SIZE
  /\ \A x \in DOMAIN unit : x > batchStart + BATCH_SIZE => unit[x] = "idle"
  /\ \A x \in DOMAIN unit : unit[x] = "insert" => DetailsInFlight = {}

\* the part of C27 that holds: the fan-out is bounded by the batch size and the
\* next batch starts only when every callback of the current one has returned
C27_NextBatchWaits ==
  /\ Cardinality(DetailsInFlight) <= BATCH_SIZE
  /\ DetailsInFlight \subseteq CurrentBatch
  /\ \A x \in DOMAIN unit : x > batchStart + BATCH_SIZE => unit[x] = "idle"
  /\ \A x \in DOMAIN unit : x <= batchStart => unit[x] = "done"

\* C29 as stated: the map built by the re-query after a page's primary load
\* holds only generated ids of rows of the same tenant that the run's primary
\* load inserted, never the id of a row that existed before the run or of a
\* row of another tenant.
C29_OnlyJustInsertedRows ==
  \A e \in primaryIdMapping :
    /\ citas[e[2]].tenant = "own"
    /\ e[2] \in RunRows

\* the part of C29 that holds: the map holds only ids of primary rows of the
\* same tenant with the source id asked for
C29_SameTenantOnly ==
  \A e \in primaryIdMapping :
    /\ e[2] \in 1..Len(citas)
    /\ citas[e[2]].tenant = "own"
    /\ citas[e[2]].old_id = e[1]
    /\ citas[e[2]].id_cita_reference = Null

\* the cache key of the call a request has in flight
KeyInFlight(c) ==
  generateCacheKey(mcall[c].entityType, mcall[c].apiResult, mcall[c].dbResult)

\* C28 as stated: across all requests handled by the process, mapData is
\* never awaiting the oracle for a cache key for which an earlier invocation
\* is still awaiting the oracle.
C28_NoConcurrentReconciliation ==
  \A c1, c2 \in Callers :
    (/\ c1 # c2
     /\ mcall[c1].pc = "awaitOracle"
     /\ mcall[c2].pc = "awaitOracle") => KeyInFlight(c1) # KeyInFlight(c2)

\* C31 as stated: the survey-response migration inserts at most one row of
\* anamnesis_hojas_has_pacientes per (id_anamnesis_hoja, id_paciente) pair,
\* also for surveys of the same pair processed in the same parallel batch.
C31_OneRowPerPair ==
  \A p \in Pairs : hojas[p] <= 1

\* what does hold: a survey whose SELECT runs after the row of its pair was
\* inserted is skipped, so surveys of one pair in different batches give one row
C31_OneRowAcrossBatches ==
  \A p \in Pairs :
    hojas[p] > 1 =>
      \E x, y \in DOMAIN completedSurveys :
        /\ x # y
        /\ completedSurveys[x].pair = p
        /\ completedSurveys[y].pair = p
        /\ (x - 1) \div BATCH_SIZE = (y - 1) \div BATCH_SIZE

\* C36: when the survey-response migration completes every completed survey
\* has been counted exactly once: inserted + skipped + errors.length = total
\* and processed = inserted + errors.length, whatever the completion order.
C36_EverySurveyCountedOnce ==
  epc = "done" =>
    /\ surveyStats.inserted + surveyStats.skipped + Len(surveyStats.errors)
         = surveyStats.total
    /\ surveyStats.processed = surveyStats.inserted + Len(surveyStats.errors)

C36_Witness ==
  /\ epc = "done"
  /\ surveyStats.total = 4
  /\ surveyStats.inserted >= 1
  /\ surveyStats.skipped >= 1
  /\ Len(surveyStats.errors) >= 1
  /\ surveyStats.errors[1] > 1

\* the results that pass the engine's structural checks
PassedChecks(r) ==
  /\ IsMapping(r)
  /\ r.mapperShape \in {"object", "array"}
  /\ r.missing = "array"

\* a step in which a mapData call that invoked the oracle returns an error
ReturnsError ==
  /\ \E c \in Callers : mcall[c].pc = "awaitOracle" /\ mcall'[c].pc = "idle"
  /\ ~IsMapping(last'.ret)

\* C32: a mapData call that ends in an error result leaves the cache
\* unchanged, so that a later call with the identical triple invokes the
\* oracle again; only results that passed the structural checks are stored.
C32_ErrorsNotCached ==
  /\ [][ReturnsError => mapperCache' = mapperCache]_vars
  /\ [](\A e \in mapperCache : PassedChecks(e[2]))
  /\ []((Successive /\ prev.invoked /\ ~IsMapping(prev.ret)) => last.invoked)

C32_Witness ==
  /\ Successive
  /\ prev.invoked
  /\ prev.ret.error = "AI_MAPPING_ERROR"
  /\ last.invoked
  /\ last.response.status = "ok"
  /\ IsMapping(last.ret)
  /\ oracleCalls = 2
  /\ Cardinality(mapperCache) = 1

\* C33: the cache lookup ignores the policy options: after a mapping was
\* cached for a triple under one policy, a call with the same triple under
\* the other policy returns that cached mapping without invoking the oracle.
C33_LookupIgnoresPolicy ==
  (/\ Successive
   /\ prev.end = "returned"
   /\ IsMapping(prev.ret)
   /\ prev.allowManyToOne # last.allowManyToOne) =>
    /\ ~last.invoked
    /\ last.end = "returned"
    /\ last.ret = prev.ret

C33_Witness ==
  /\ Successive
  /\ prev.invoked
  /\ IsMapping(prev.ret)
  /\ prev.allowManyToOne
  /\ ~prev.ret.injective
  /\ ~last.allowManyToOne
  /\ ~last.invoked
  /\ last.ret.obj = prev.ret.obj

\* C34 as stated: every invocation of the page callback made by
\* processPaginatedInBatches has 0 <= pageIndex < totalPages; a source whose
\* first page reports count 0 triggers no invocation.
C34_PageIndexBelowTotalPages ==
  mode = "processPaginatedInBatches" =>
    \A x \in 1..Len(callbacks) :
      /\ 0 <= callbacks[x].pageIndex
      /\ callbacks[x].pageIndex < callbacks[x].totalPages

\* the part of C34 that holds: for a source with at least one record every
\* invocation has 0 <= pageIndex < totalPages
C34_PageIndexInRangeWhenNonEmpty ==
  (mode = "processPaginatedInBatches" /\ total >= 1) =>
    \A x \in 1..Len(callbacks) :
      /\ 0 <= callbacks[x].pageIndex
      /\ callbacks[x].pageIndex < callbacks[x].totalPages

\* C35: no record is handed to the loader with the pending placeholder or
\* the transform's metadata: every record the appointments flow passes to
\* processBatches has id_cita_reference null or an id the store generated,
\* never "PENDING", and has neither _isPrimary nor _originalId.
C35_NoPlaceholderSubmitted ==
  \A x \in 1..Len(loads) : \A y \in 1..Len(loads[x].records) :
    LET r == loads[x].records[y] IN
      /\ r.id_cita_reference # PENDING
      /\ r.id_cita_reference \in {Null} \cup {citas[z].id_cita : z \in 1..Len(citas)}
      /\ r.isPrimary = "absent"
      /\ r.originalId = Null

C35_Witness ==
  \E x \in 1..Len(loads) :
    /\ loads[x].kind = "secondary"
    /\ Len(loads[x].records) = 2
    /\ loads[x].records[1].id_cita_reference = Null
    /\ loads[x].records[2].id_cita_reference = Null
    /\ x > 1
    /\ loads[x - 1].failedBatches > 0

-----------------------------------------------------------------------------
(* Properties of the survey templates *)

\* the probe of id k fails, and so do the four before it
FailedRunEndingAt(k) ==
  /\ k >= MAX_CONSECUTIVE_ERRORS
  /\ \A x \in (k - MAX_CONSECUTIVE_ERRORS + 1)..k : x \notin responding

\* the first id that ends a run of five failed probes
StopId ==
  CHOOSE k \in 1..(MaxTemplateId + MAX_CONSECUTIVE_ERRORS) :
    /\ FailedRunEndingAt(k)
    /\ \A x \in 1..(k - 1) : ~FailedRunEndingAt(x)

\* the ids probed so far are 1, 2, ..., surveyId - 1 and none of them but the
\* last can end a run of five failures; the templates found are those of the
\* ids probed, in ascending order
ProbedInOrder ==
  /\ surveyId - 1 <= StopId
  /\ templates = Ascending(responding \cap 1..(surveyId - 1))
  /\ tpc = "done" =>
       /\ surveyId - 1 = StopId
       /\ templates = Ascending({x \in responding : x < StopId})

C38_ReloadedMappingEqualsCreated ==
  \A x, y \in 1..Len(migrations) :
    (/\ ~migrations[x].skipped
     /\ ~migrations[x].threw
     /\ migrations[y].skipped
     /\ migrations[y].id_anamnesis_hoja = migrations[x].id_anamnesis_hoja) =>
      migrations[y].preguntasMapping = migrations[x].preguntasMapping

\* the part of C38 that holds: the mappings are equal for a template whose
\* questions were all put into one category, in the order of the source
C38_EqualForOneCategory ==
  Len(aiData) = 1 => C38_ReloadedMappingEqualsCreated

\* C39 as stated: a template is treated as already migrated only if a
\* template row with the same source id exists for the same tenant; a row of
\* another tenant never causes the skip.
C39_SkipOnlyForSameTenant ==
  \A x \in 1..Len(migrations) :
    migrations[x].skipped =>
      \E y \in 1..Len(anamnesis_hojas) :
        /\ anamnesis_hojas[y].old_id = surveyTemplate.id
        /\ anamnesis_hojas[y].tenant = migrations[x].tenant

\* the part of C39 that holds: a skipped template has a row with its source id
C39_SkipOnlyForExistingRow ==
  \A x \in 1..Len(migrations) :
    migrations[x].skipped =>
      /\ migrations[x].id_anamnesis_hoja \in 1..Len(anamnesis_hojas)
      /\ anamnesis_hojas[migrations[x].id_anamnesis_hoja].old_id = surveyTemplate.id

=============================================================================
